---- MODULE Spec2Model ----
(***************************************************************************)
(* Model of the stream workflow status dashboard: the persisted streams    *)
(* and their history log, the git state the server reads (worktree list,   *)
(* merged branches, directories on disk) and the worktree reconciliation   *)
(* engine (scanners/worktree-reconciliation.ts) that compares them, and    *)
(* the retirement of completed streams (services/retirement-service.ts,    *)
(* POST /:id/archive and POST /archive-bulk in api/routes/streams.ts).     *)
(* Further specifications model the commit scanner and its log parser     *)
(* (scanners/git-commits.ts), the periodic scan and the push notifications *)
(* (api/server.ts, api/events.ts), the PATCH and commit routes, the start  *)
(* of servers on one lock file (api/discovery.ts) and the startup sync     *)
(* after a retirement.  The last specifications model the return value of  *)
(* syncFromFiles (services/sync-service.ts), the quick statistics          *)
(* (getQuickStats), the heartbeats and broadcasts of the                   *)
(* EventManager, and the two SSE clients of the SDK (sdk/sse-client.ts).   *)
(*                                                                         *)
(* Abstractions: timestamps are not kept (completedAt is "set" or          *)
(* "null"; updated_at only decides the row order of getAllStreams, which   *)
(* is taken as any order of the rows); a path is a record [dir, base] so   *)
(* that basename() and join() are computed; titles, categories and the     *)
(* other descriptive columns are left out.                                 *)
(***************************************************************************)
EXTENDS Integers, Sequences, FiniteSets, TLC

VARIABLES
    streams,       \* table streams: id -> row
    history,       \* table stream_history, in insertion order
    gitWorktrees,  \* what `git worktree list --porcelain` reports, in order
    gitMerged,     \* what `git branch --merged main` reports
    disk,          \* the directories and files that exist on the filesystem
    call,          \* the reconcile call whose response is in flight, if any
    result,        \* the ReconciliationResult that call returned
    commits,       \* table commits, in insertion order
    jobs,          \* table summary_jobs, in insertion order
    reqs,          \* the retirement requests being handled: client -> progress
    gitLog,        \* the lines `git log --numstat` prints, per stream and main
    parsed,        \* the Commit[] the last call of getWorktreeCommits returned
    scan,          \* what the last scanAllWorktreeCommits returned
    clients,       \* EventManager.clients: the connected SSE listeners
    outbox,        \* the SSE events written and not yet read by the listeners
    scanningInterval, \* server.ts: the timer of the periodic scan, or null
    timers,        \* the interval timers of the process that are not cleared
    nextTimer,     \* the number of the next timer setInterval creates
    lockFile,      \* the content of the lock file, or null when there is none
    procs,         \* the processes that call startApiServer: pid -> progress
    listening,     \* the ports that are listened on: port -> pid
    heartbeats,    \* the listeners whose heartbeat interval is not cleared
    sdk,           \* one SSE client of the SDK: its fields and connections
    syncResult,    \* what the last syncFromFiles returned
    sent           \* what the last EventManager.broadcast returned to a caller

vars == <<streams, history, gitWorktrees, gitMerged, disk, call, result,
          commits, jobs, reqs, gitLog, parsed, scan, clients, outbox,
          scanningInterval, timers, nextTimer, lockFile, procs, listening,
          heartbeats, sdk, syncResult, sent>>
\* what the reconciliation engine and the sync service leave alone
retirementVars == <<commits, jobs, reqs>>
\* the commit scanner, the push notifications, the periodic scan
scannerVars == <<gitLog, parsed, scan>>
timerVars == <<scanningInterval, timers, nextTimer>>
\* the lock file and the processes that start servers
lockVars == <<lockFile, procs, listening>>
\* the heartbeat timers of the listeners, the SDK client, the sync counts
clientVars == <<heartbeats, sdk, syncResult, sent>>
serverVars == <<scannerVars, clients, outbox, timerVars, lockVars, clientVars>>

----------------------------------------------------------------------------
(* Bounds *)

MaxHistory == 2
MaxWorktrees == 2
MaxSyncEntries == 1
\* the longest list of ids sent to POST /archive-bulk
MaxBulk == 2

----------------------------------------------------------------------------
(* Values *)

StreamIds == {"s1", "s2"}
WorktreeNames == StreamIds
\* git lists the linked worktrees sorted by path
PathOrder == <<"s1", "s2">>
PathRank(name) == CHOOSE i \in DOMAIN PathOrder : PathOrder[i] = name
\* the worktrees in which a detached HEAD is checked out
DetachableWorktrees == {"s1"}
GitOutcomes == {TRUE}
MergeableBranches == {"s1"}

StreamStatus == {"initializing", "active", "blocked", "paused", "completed", "archived"}

Undefined == "undefined"
Null == "null"
OptionValues == {Undefined, "true", "false"}

WorktreeRoot == "worktrees"
ProjectRoot == [dir |-> "", base |-> "repo"]

NoPath == [dir |-> "", base |-> ""]
join(dir, name) == [dir |-> dir, base |-> name]
basename(path) == path.base

\* a JavaScript Map: the pairs [key, value] in insertion order
EmptyMap == <<>>
MapKeys(map) == {map[i].key : i \in DOMAIN map}
MapHas(map, key) == key \in MapKeys(map)
MapGet(map, key) == map[CHOOSE i \in DOMAIN map : map[i].key = key].value
MapSet(map, key, value) ==
    IF MapHas(map, key)
    THEN [i \in DOMAIN map |->
             IF map[i].key = key THEN [key |-> key, value |-> value] ELSE map[i]]
    ELSE Append(map, [key |-> key, value |-> value])
MapSize(map) == Len(map)

Range(seq) == {seq[i] : i \in DOMAIN seq}

Perms(S) == {p \in [1..Cardinality(S) -> S] : Range(p) = S}

----------------------------------------------------------------------------
(* Worktree inspector *)

RECURSIVE ParseWorktreeEntries(_, _)
ParseWorktreeEntries(entries, worktrees) ==
    IF entries = <<>> THEN worktrees
    ELSE LET e == Head(entries)
             isMain == e.branch = "main" \/ e.branch = "master"
             streamId == IF isMain THEN "main" ELSE basename(e.path)
             info == [path |-> e.path, branch |-> e.branch, isMain |-> isMain]
         IN ParseWorktreeEntries(Tail(entries),
                IF e.path # NoPath /\ e.branch # ""
                THEN MapSet(worktrees, streamId, info)
                ELSE worktrees)

getWorktreeList(ok, entries) ==
    IF ok THEN ParseWorktreeEntries(entries, EmptyMap) ELSE EmptyMap

getMergedBranches(ok, lines) ==
    IF ok THEN {b \in lines : b # "" /\ b # "main" /\ b # "master"} ELSE {}

worktreeExists(worktreePath, dirs) == worktreePath \in dirs

----------------------------------------------------------------------------
(* Storage *)

updateStream(db, streamId, status) ==
    [db EXCEPT ![streamId].status = status]

\* completeStream without the completed_at column
completeStream_NoStamp(db, streamId) ==
    [db EXCEPT ![streamId].status = "completed"]

completeStream(db, streamId) ==
    [db EXCEPT ![streamId].status = "completed", ![streamId].completedAt = "set"]

insertStream(db, stream) ==
    [id \in (DOMAIN db) \cup {stream.id} |-> IF id = stream.id THEN stream ELSE db[id]]

addHistoryEvent(log, event) == Append(log, event)

HistoryEvent(streamId, eventType, oldValue, newValue) ==
    [streamId |-> streamId, eventType |-> eventType,
     oldValue |-> oldValue, newValue |-> newValue]

\* getAllStreams without the filter `s.id != 'main'`
getAllStreams_WithMain(db) ==
    {[i \in DOMAIN p |-> db[p[i]]] : p \in Perms(DOMAIN db)}
\* the rows getAllStreams may return: every stream but "main", in some order
getAllStreams(db) ==
    {[i \in DOMAIN p |-> db[p[i]]] : p \in Perms((DOMAIN db) \ {"main"})}

----------------------------------------------------------------------------
(* Reconciliation engine *)

FaultKinds == {"none", "update", "history"}
NoFault == [id \in StreamIds |-> "none"]
Faults == [StreamIds -> FaultKinds]

Default(value, default) == IF value = Undefined THEN default ELSE value
\* the options after the destructuring defaults
Effective(options) ==
    [dryRun |-> Default(options.dryRun, "true"),
     autoArchiveStale |-> Default(options.autoArchiveStale, "false")]

EmptyResult ==
    [active |-> <<>>, completed |-> <<>>, stale |-> <<>>, orphaned |-> <<>>,
     errors |-> <<>>,
     summary |-> [totalInDb |-> 0, totalWorktrees |-> 0, active |-> 0,
                  completed |-> 0, stale |-> 0, orphaned |-> 0, errors |-> 0]]

\* Classify with the missing-worktree test ahead of the merged test
Classify_MissingFirst(stream, worktrees, mergedBranches, dirs) ==
    LET hasWorktree == MapHas(worktrees, stream.id)
                       \/ worktreeExists(stream.worktreePath, dirs)
        isMerged == stream.branch \in mergedBranches
    IN IF ~hasWorktree THEN "stale"
       ELSE IF isMerged THEN "completed"
       ELSE "active"

\* the branch of the if / else if / else chain a stream falls into
Classify(stream, worktrees, mergedBranches, dirs) ==
    LET hasWorktree == MapHas(worktrees, stream.id)
                       \/ worktreeExists(stream.worktreePath, dirs)
        isMerged == stream.branch \in mergedBranches
    IN IF isMerged THEN "completed"
       ELSE IF ~hasWorktree THEN "stale"
       ELSE "active"

NewStatus(bucket, autoArchiveStale) ==
    CASE bucket = "completed" -> "completed"
      [] bucket = "stale" -> IF autoArchiveStale THEN "archived" ELSE Undefined
      [] bucket = "active" -> Undefined

Reason(bucket) ==
    CASE bucket = "completed" -> "Branch merged to main"
      [] bucket = "stale" -> "Worktree does not exist"
      [] bucket = "active" -> "Worktree exists and branch not merged"

ReconciliationEntry(stream, bucket, autoArchiveStale) ==
    [streamId |-> stream.id, branch |-> stream.branch,
     worktreePath |-> stream.worktreePath, previousStatus |-> stream.status,
     newStatus |-> NewStatus(bucket, autoArchiveStale), reason |-> Reason(bucket)]

\* MustWrite without the test that the status is not yet the one to write
MustWrite_NoStatusTest(bucket, status, dryRun, autoArchiveStale) ==
    CASE bucket = "completed" -> ~dryRun
      [] bucket = "stale" -> ~dryRun /\ autoArchiveStale
      [] bucket = "active" ->
            ~dryRun /\ status # "active" /\ status # "blocked" /\ status # "paused"

\* MustWrite with the autoArchiveStale test missing from the stale branch
MustWrite_IgnoreAutoArchive(bucket, status, dryRun, autoArchiveStale) ==
    CASE bucket = "completed" -> ~dryRun /\ status # "completed"
      [] bucket = "stale" -> ~dryRun /\ status # "archived"
      [] bucket = "active" ->
            ~dryRun /\ status # "active" /\ status # "blocked" /\ status # "paused"

\* MustWrite with the dry-run test missing from the completed branch
MustWrite_IgnoreDryRun(bucket, status, dryRun, autoArchiveStale) ==
    CASE bucket = "completed" -> status # "completed"
      [] bucket = "stale" -> ~dryRun /\ autoArchiveStale /\ status # "archived"
      [] bucket = "active" ->
            ~dryRun /\ status # "active" /\ status # "blocked" /\ status # "paused"

\* the condition guarding the writes of each branch
MustWrite(bucket, status, dryRun, autoArchiveStale) ==
    CASE bucket = "completed" -> ~dryRun /\ status # "completed"
      [] bucket = "stale" -> ~dryRun /\ autoArchiveStale /\ status # "archived"
      [] bucket = "active" ->
            ~dryRun /\ status # "active" /\ status # "blocked" /\ status # "paused"

\* the status written by each branch
WrittenStatus(bucket) ==
    CASE bucket = "completed" -> "completed"
      [] bucket = "stale" -> "archived"
      [] bucket = "active" -> "active"

PushError(acc, streamId, error) ==
    [acc EXCEPT !.result.errors = Append(@, [streamId |-> streamId, error |-> error]),
                !.result.summary.errors = @ + 1]

\* the status update followed by the history append; a statement that throws
\* ends the try block and is recorded by the catch
WriteStatus(acc, stream, bucket, fault) ==
    IF fault = "update"
    THEN PushError(acc, stream.id, "update failed")
    ELSE LET db1 == IF bucket = "completed"
                    THEN completeStream(acc.db, stream.id)
                    ELSE updateStream(acc.db, stream.id, WrittenStatus(bucket))
             updated == [acc EXCEPT !.db = db1]
         IN IF fault = "history"
            THEN PushError(updated, stream.id, "Failed to add history event")
            ELSE [updated EXCEPT !.log = addHistoryEvent(@,
                     HistoryEvent(stream.id, "status_changed", stream.status,
                                  WrittenStatus(bucket)))]

\* ProcessStream building the entry after the write, from the row as updated
ProcessStream_EntryAfterWrite(acc, stream, worktrees, mergedBranches, dirs, dryRun, autoArchiveStale, fault) ==
    LET matched == IF MapHas(worktrees, stream.id)
                   THEN acc.matchedWorktrees \cup {stream.id}
                   ELSE acc.matchedWorktrees
        bucket == Classify(stream, worktrees, mergedBranches, dirs)
        written == IF MustWrite(bucket, stream.status, dryRun, autoArchiveStale)
                   THEN WriteStatus(acc, stream, bucket, fault)
                   ELSE acc
        entry == ReconciliationEntry(written.db[stream.id], bucket, autoArchiveStale)
    IN [written EXCEPT !.matchedWorktrees = matched,
                       !.result[bucket] = Append(@, entry),
                       !.result.summary[bucket] = @ + 1]

\* one iteration of the loop over the persisted streams
ProcessStream(acc, stream, worktrees, mergedBranches, dirs, dryRun, autoArchiveStale, fault) ==
    LET matched == IF MapHas(worktrees, stream.id)
                   THEN acc.matchedWorktrees \cup {stream.id}
                   ELSE acc.matchedWorktrees
        bucket == Classify(stream, worktrees, mergedBranches, dirs)
        entry == ReconciliationEntry(stream, bucket, autoArchiveStale)
        pushed == [acc EXCEPT !.matchedWorktrees = matched,
                              !.result[bucket] = Append(@, entry),
                              !.result.summary[bucket] = @ + 1]
    IN IF MustWrite(bucket, stream.status, dryRun, autoArchiveStale)
       THEN WriteStatus(pushed, stream, bucket, fault)
       ELSE pushed

\* ProcessStreams with the catch outside the loop: the first error ends it
RECURSIVE ProcessStreams_StopAtError(_, _, _, _, _, _, _, _)
ProcessStreams_StopAtError(acc, rows, worktrees, mergedBranches, dirs, dryRun, autoArchiveStale, faults) ==
    IF rows = <<>> THEN acc
    ELSE LET next == ProcessStream(acc, Head(rows), worktrees, mergedBranches, dirs,
                                   dryRun, autoArchiveStale, faults[Head(rows).id])
         IN IF Len(next.result.errors) > Len(acc.result.errors) THEN next
            ELSE ProcessStreams_StopAtError(next, Tail(rows), worktrees, mergedBranches,
                                            dirs, dryRun, autoArchiveStale, faults)

RECURSIVE ProcessStreams(_, _, _, _, _, _, _, _)
ProcessStreams(acc, rows, worktrees, mergedBranches, dirs, dryRun, autoArchiveStale, faults) ==
    IF rows = <<>> THEN acc
    ELSE ProcessStreams(
             ProcessStream(acc, Head(rows), worktrees, mergedBranches, dirs,
                           dryRun, autoArchiveStale, faults[Head(rows).id]),
             Tail(rows), worktrees, mergedBranches, dirs, dryRun, autoArchiveStale, faults)

\* Orphaned without the test on the matched keys
RECURSIVE Orphaned_Unmatched(_, _)
Orphaned_Unmatched(worktrees, matchedWorktrees) ==
    IF worktrees = <<>> THEN <<>>
    ELSE LET w == Head(worktrees)
             rest == Orphaned_Unmatched(Tail(worktrees), matchedWorktrees)
         IN IF ~w.value.isMain THEN <<w.value>> \o rest ELSE rest

\* the loop over the live worktrees that reports the unmatched ones
RECURSIVE Orphaned(_, _)
Orphaned(worktrees, matchedWorktrees) ==
    IF worktrees = <<>> THEN <<>>
    ELSE LET w == Head(worktrees)
             rest == Orphaned(Tail(worktrees), matchedWorktrees)
         IN IF w.key \notin matchedWorktrees /\ ~w.value.isMain
            THEN <<w.value>> \o rest
            ELSE rest

\* reconcileWorktrees: db and log are the tables, rows what getAllStreams
\* returned, faults the statement that throws for each stream (if any)
reconcileWorktrees(db, log, rows, worktrees, mergedBranches, dirs, options, faults) ==
    LET dryRun == Default(options.dryRun, "true") = "true"
        autoArchiveStale == Default(options.autoArchiveStale, "false") = "true"
        start == [db |-> db, log |-> log, matchedWorktrees |-> {"main"},
                  result |-> [EmptyResult EXCEPT
                                 !.summary.totalInDb = Len(rows),
                                 !.summary.totalWorktrees = MapSize(worktrees) - 1]]
        looped == ProcessStreams(start, rows, worktrees, mergedBranches, dirs,
                                 dryRun, autoArchiveStale, faults)
        orphaned == Orphaned(worktrees, looped.matchedWorktrees)
    IN [db |-> looped.db, log |-> looped.log,
        result |-> [looped.result EXCEPT !.orphaned = orphaned,
                                         !.summary.orphaned = Len(orphaned)]]

----------------------------------------------------------------------------
(* Sync service *)

\* the metadata read from one plan file; status and branch come from the
\* frontmatter when it gives them
parseStreamMarkdown(file, worktrees, worktreeRoot) ==
    [id |-> file.streamId,
     status |-> Default(file.status, "active"),
     completedAt |-> Null,
     worktreePath |-> IF MapHas(worktrees, file.streamId)
                      THEN MapGet(worktrees, file.streamId).path
                      ELSE join(worktreeRoot, file.streamId),
     branch |-> Default(file.branch, file.streamId),
     blockedBy |-> Null, progress |-> 0]

\* what an entry of the streams directory is: a directory with a README.md
\* or a .md file that parses ("stream"), a directory without README.md, a
\* file that is no .md file, a markdown file that parseStreamMarkdown
\* cannot read (it returns null), and a stream whose INSERT throws another
\* error than the UNIQUE constraint
EntryKinds == {"stream", "noReadme", "otherFile", "unparsable", "rejected"}
Count(acc, counter) == [acc EXCEPT ![counter] = @ + 1]

\* the loop of syncFromFiles over the directory entries; acc is the tables
\* and the three counters
RECURSIVE SyncEntries_Overwrite(_, _, _)
SyncEntries_Overwrite(acc, files, worktrees) ==
    IF files = <<>> THEN acc
    ELSE LET entry == Head(files)
             stream == parseStreamMarkdown(entry, worktrees, WorktreeRoot)
         IN SyncEntries_Overwrite(
                IF entry.kind \in {"noReadme", "otherFile"} THEN Count(acc, "skipped")
                ELSE IF entry.kind = "unparsable" THEN Count(acc, "errors")
                ELSE IF entry.kind = "rejected" THEN Count(acc, "errors")
                ELSE [Count(acc, "synced") EXCEPT
                         !.db = insertStream(@, stream),
                         !.log = addHistoryEvent(@,
                                     HistoryEvent(stream.id, "created", Null, Null))],
                Tail(files), worktrees)
RECURSIVE SyncEntries(_, _, _)
SyncEntries(acc, files, worktrees) ==
    IF files = <<>> THEN acc
    ELSE LET entry == Head(files)
             stream == parseStreamMarkdown(entry, worktrees, WorktreeRoot)
         IN SyncEntries(
                IF entry.kind \in {"noReadme", "otherFile"} THEN Count(acc, "skipped")
                ELSE IF entry.kind = "unparsable" THEN Count(acc, "errors")
                ELSE IF stream.id \in DOMAIN acc.db
                THEN Count(acc, "skipped")    \* UNIQUE constraint failed
                ELSE IF entry.kind = "rejected" THEN Count(acc, "errors")
                ELSE [Count(acc, "synced") EXCEPT
                         !.db = insertStream(@, stream),
                         !.log = addHistoryEvent(@,
                                     HistoryEvent(stream.id, "created", Null, Null))],
                Tail(files), worktrees)

PlanStatuses(streamId) ==
    IF streamId = "s1" THEN {Undefined, "initializing", "blocked", "archived"}
    ELSE {Undefined}

PlanFiles ==
    {f \in [streamId : StreamIds, status : StreamStatus \cup {Undefined},
            branch : {Undefined}, kind : {"stream"}] :
        f.status \in PlanStatuses(f.streamId)}

PlanDirectories ==
    {files \in UNION {[1..n -> PlanFiles] : n \in 1..MaxSyncEntries} :
        \A i, j \in DOMAIN files : i # j => files[i].streamId # files[j].streamId}

----------------------------------------------------------------------------
(* State machine *)

NoOptions == [dryRun |-> Undefined, autoArchiveStale |-> Undefined]
Called(op, options, ok) == [op |-> op, options |-> options, gitOk |-> ok]
\* no response is in flight
Idle == Called("idle", NoOptions, TRUE)
\* the response of a reconcile call is in flight
Pending == call.op = "reconcile"

\* the clients that send retirement requests, and a client without one
Requests == {"r1", "r2"}
NoStream == [id |-> Null, status |-> Null, completedAt |-> Null,
             worktreePath |-> NoPath, branch |-> Null, blockedBy |-> Null,
             progress |-> 0]
NoRetirementOptions ==
    [deleteWorktree |-> Undefined, cleanupPlanFiles |-> Undefined,
     writeArchive |-> Undefined, queueIntelligentSummary |-> Undefined,
     db |-> Undefined]
\* result as retireStream initialises it
NewRetirementResult(streamId) ==
    [success |-> FALSE, streamId |-> streamId, worktreeDeleted |-> FALSE,
     archiveWritten |-> FALSE, planFilesCleanedUp |-> FALSE,
     summaryJobQueued |-> FALSE, errors |-> <<>>]
IdleRequest ==
    [pc |-> "idle", kind |-> "none", ids |-> <<>>, stream |-> NoStream,
     summary |-> Undefined, options |-> NoRetirementOptions,
     archivePath |-> NoPath, result |-> NewRetirementResult(Null),
     cleaned |-> FALSE, ops |-> <<>>, results |-> <<>>,
     response |-> [status |-> 0, body |-> Undefined]]

\* no log, no listener, no timer, no lock file, no process started
Processes == {"p1", "p2", "p3"}
NoLock == [pid |-> Null, port |-> 0]
\* a process before it calls startApiServer; scanning tells whether its own
\* periodic scan was started
IdleProcess ==
    [pc |-> "idle", lock |-> NoLock, port |-> 0, existing |-> FALSE,
     scanning |-> FALSE]
NoScan == [scanned |-> 0, commitsAdded |-> 0, errors |-> 0, outcome |-> "none"]
\* clearInterval(null) and `if (scanningInterval)`: no timer
NoTimer == 0
\* no log has been parsed
NoParse == [of |-> Null, commits |-> <<>>]
TimersIdle ==
    /\ scanningInterval = NoTimer
    /\ timers = {}
    /\ nextTimer = 1
LockIdle ==
    /\ lockFile = NoLock
    /\ procs = [p \in Processes |-> IdleProcess]
    /\ listening = [port \in {} |-> port]
\* no sync has run; entries is the directory listing the run went through
NoSync == [synced |-> 0, skipped |-> 0, errors |-> 0, entries |-> <<>>]
\* no SDK client has been constructed
NoSseClient == [kind |-> "none"]
ClientsIdle ==
    /\ heartbeats = {}
    /\ sdk = NoSseClient
    /\ syncResult = NoSync
    /\ sent = 0
ServerIdle ==
    /\ gitLog = [id \in StreamIds \cup {"main"} |-> <<>>]
    /\ parsed = NoParse
    /\ scan = NoScan
    /\ clients = {}
    /\ outbox = <<>>
    /\ TimersIdle
    /\ LockIdle
    /\ ClientsIdle

Init ==
    /\ streams = [id \in {} |-> id]
    /\ history = <<>>
    /\ gitWorktrees = <<[path |-> ProjectRoot, branch |-> "main"]>>
    /\ gitMerged = {"main"}
    /\ disk = {}
    /\ call = Idle
    /\ result = EmptyResult
    /\ commits = <<>>
    /\ jobs = <<>>
    /\ reqs = [r \in Requests |-> IdleRequest]
    /\ ServerIdle

\* startup sync of the plan files found in .project/plan/streams
SyncFromFiles(files, ok) ==
    LET out == SyncEntries([db |-> streams, log |-> history, synced |-> 0,
                            skipped |-> 0, errors |-> 0],
                           files, getWorktreeList(ok, gitWorktrees))
    IN /\ ~Pending
       /\ Len(out.log) <= MaxHistory
       /\ streams' = out.db
       /\ history' = out.log
       /\ call' = Idle
       /\ result' = EmptyResult
       /\ UNCHANGED <<gitWorktrees, gitMerged, disk, retirementVars, serverVars>>

\* the streams for which a call attempts the status update
WriteAttempted(options, ok) ==
    LET worktrees == getWorktreeList(ok, gitWorktrees)
        mergedBranches == getMergedBranches(ok, gitMerged)
    IN {id \in (DOMAIN streams) \ {"main"} :
           MustWrite(Classify(streams[id], worktrees, mergedBranches, disk),
                     streams[id].status,
                     Default(options.dryRun, "true") = "true",
                     Default(options.autoArchiveStale, "false") = "true")}

\* a reconcileWorktrees call: ok tells whether the git commands succeed; for
\* a stream whose status is written, either storage statement may throw. While
\* a response is in flight only the same request is sent again; any other
\* request, and any change of the repository, follows the delivery.
Reconcile(options, ok) ==
    LET worktrees == getWorktreeList(ok, gitWorktrees)
        mergedBranches == getMergedBranches(ok, gitMerged)
        attempted == WriteAttempted(options, ok)
    IN /\ Pending => ok = call.gitOk /\ Effective(options) = call.options
       /\ \E faults \in {f \in Faults :
                             \A id \in StreamIds : f[id] # "none" => id \in attempted},
             rows \in getAllStreams(streams) :
           \E out \in {reconcileWorktrees(streams, history, rows, worktrees,
                           mergedBranches, disk, options, faults)} :
              /\ Len(out.log) <= MaxHistory
              /\ streams' = out.db
              /\ history' = out.log
              /\ result' = out.result
              /\ call' = Called("reconcile", Effective(options), ok)
              /\ UNCHANGED <<gitWorktrees, gitMerged, disk, retirementVars, serverVars>>

\* GET /reconciliation/status
ReconciliationStatus(ok) ==
    Reconcile([dryRun |-> "true", autoArchiveStale |-> Undefined], ok)

\* POST /reconciliation/run with the body fields given or left out
ReconciliationRun(body, ok) ==
    Reconcile([dryRun |-> Default(body.dryRun, "true"),
               autoArchiveStale |-> Default(body.autoArchiveStale, "false")],
              ok)

\* the client has read the response (res.json) of the last reconcile call
ResponseReceived ==
    /\ Pending
    /\ call' = Idle
    /\ result' = EmptyResult
    /\ UNCHANGED <<streams, history, gitWorktrees, gitMerged, disk, retirementVars, serverVars>>

\* what happens to the repository outside the server
GitWorktreeAdd(name) ==
    LET path == join(WorktreeRoot, name)
    IN /\ ~Pending
       /\ Len(gitWorktrees) < MaxWorktrees
       /\ \A i \in DOMAIN gitWorktrees : gitWorktrees[i].path # path
       /\ gitWorktrees' =
              <<Head(gitWorktrees)>>
              \o SelectSeq(Tail(gitWorktrees),
                           LAMBDA w : PathRank(basename(w.path)) < PathRank(name))
              \o <<[path |-> path, branch |-> name]>>
              \o SelectSeq(Tail(gitWorktrees),
                           LAMBDA w : PathRank(basename(w.path)) > PathRank(name))
       /\ disk' = disk \cup {path}
       /\ call' = Idle
       /\ result' = EmptyResult
       /\ UNCHANGED <<streams, history, gitMerged, retirementVars, serverVars>>

GitWorktreeRemove(i) ==
    /\ ~Pending
    /\ i \in DOMAIN gitWorktrees /\ i > 1
    /\ gitWorktrees' = [j \in 1..(Len(gitWorktrees) - 1) |->
                            IF j < i THEN gitWorktrees[j] ELSE gitWorktrees[j + 1]]
    /\ disk' = disk \ {gitWorktrees[i].path}
    /\ call' = Idle
    /\ result' = EmptyResult
    /\ UNCHANGED <<streams, history, gitMerged, retirementVars, serverVars>>

RemoveDirectory(path) ==
    /\ ~Pending
    /\ path \in disk
    /\ disk' = disk \ {path}
    /\ call' = Idle
    /\ result' = EmptyResult
    /\ UNCHANGED <<streams, history, gitWorktrees, gitMerged, retirementVars, serverVars>>

GitMerge(branch) ==
    /\ ~Pending
    /\ branch \notin gitMerged
    /\ gitMerged' = gitMerged \cup {branch}
    /\ call' = Idle
    /\ result' = EmptyResult
    /\ UNCHANGED <<streams, history, gitWorktrees, disk, retirementVars, serverVars>>

\* git checkout in a linked worktree: of a detached HEAD (reported without a
\* branch line) or back of its branch
GitCheckout(i, branch) ==
    /\ ~Pending
    /\ i \in DOMAIN gitWorktrees /\ i > 1
    /\ basename(gitWorktrees[i].path) \in DetachableWorktrees
    /\ gitWorktrees[i].branch # branch
    /\ branch \in {"", basename(gitWorktrees[i].path)}
    /\ gitWorktrees' = [gitWorktrees EXCEPT ![i].branch = branch]
    /\ call' = Idle
    /\ result' = EmptyResult
    /\ UNCHANGED <<streams, history, gitMerged, disk, retirementVars, serverVars>>

Bodies == [dryRun : {Undefined, "false"}, autoArchiveStale : {Undefined, "true"}]

Next ==
    \/ \E files \in PlanDirectories, ok \in GitOutcomes : SyncFromFiles(files, ok)
    \/ \E ok \in GitOutcomes : ReconciliationStatus(ok)
    \/ \E body \in Bodies, ok \in GitOutcomes : ReconciliationRun(body, ok)
    \/ ResponseReceived
    \/ \E name \in WorktreeNames : GitWorktreeAdd(name)
    \/ \E i \in 2..MaxWorktrees : GitWorktreeRemove(i)
    \/ \E name \in WorktreeNames : RemoveDirectory(join(WorktreeRoot, name))
    \/ \E branch \in MergeableBranches : GitMerge(branch)
    \/ \E i \in 2..MaxWorktrees, branch \in WorktreeNames \cup {""} :
           GitCheckout(i, branch)

Spec == Init /\ [][Next]_vars

----------------------------------------------------------------------------
(* Vocabulary of the properties *)

Persisted(db) == (DOMAIN db) \ {"main"}
CallDryRun(c) == Default(c.options.dryRun, "true") = "true"
CallAutoArchive(c) == Default(c.options.autoArchiveStale, "false") = "true"
LiveWorktrees(c) == getWorktreeList(c.gitOk, gitWorktrees)
LiveMerged(c) == getMergedBranches(c.gitOk, gitMerged)

Buckets == {"active", "completed", "stale"}
BucketIds(res, bucket) == {res[bucket][i].streamId : i \in DOMAIN res[bucket]}
Occurrences(res, bucket, id) ==
    Cardinality({i \in DOMAIN res[bucket] : res[bucket][i].streamId = id})
EntriesOf(res, id) ==
    UNION {{res[b][i] : i \in {j \in DOMAIN res[b] : res[b][j].streamId = id}} : b \in Buckets}
ErrorIds(res) == {res.errors[i].streamId : i \in DOMAIN res.errors}

IsMerged(c, row) == row.branch \in LiveMerged(c)
IsMissing(c, row) ==
    ~MapHas(LiveWorktrees(c), row.id) /\ row.worktreePath \notin disk

\* the events a step appends to the history log for one stream
AppendedFor(id) ==
    SelectSeq(SubSeq(history', Len(history) + 1, Len(history')),
              LAMBDA e : e.streamId = id)
HistoryKept == SubSeq(history', 1, Len(history)) = history

IsReconcileStep == call'.op = "reconcile"

OnlyIn(res, id, bucket) ==
    \A b \in Buckets : Occurrences(res, b, id) = (IF b = bucket THEN 1 ELSE 0)

----------------------------------------------------------------------------
(* C1: after a reconcile every persisted stream sits in exactly one bucket,   *)
(* chosen by first match: completed when its branch is merged (also when its  *)
(* worktree is still there), else stale when its id is no key of the live     *)
(* worktree mapping and its worktreePath is not on disk, else active.         *)

C1_Precedence ==
    call.op = "reconcile" =>
        \A id \in Persisted(streams) :
            IF IsMerged(call, streams[id]) THEN OnlyIn(result, id, "completed")
            ELSE IF IsMissing(call, streams[id]) THEN OnlyIn(result, id, "stale")
            ELSE OnlyIn(result, id, "active")

\* a merged stream whose worktree is still live was put in completed
C1_Witness ==
    /\ call.op = "reconcile"
    /\ \E id \in Persisted(streams) :
          /\ IsMerged(call, streams[id])
          /\ MapHas(LiveWorktrees(call), id)
          /\ streams[id].worktreePath \in disk
          /\ id \in BucketIds(result, "completed")

----------------------------------------------------------------------------
(* C2: a reconcile call with dryRun true (given, or defaulted because the     *)
(* option was left out, as by GET /reconciliation/status) leaves every        *)
(* stream row and the history log as they were, whatever autoArchiveStale is. *)

C2_DryRunPure ==
    [][(IsReconcileStep /\ CallDryRun(call'))
           => (streams' = streams /\ history' = history)]_vars

\* a dry run reported a status change it did not apply: a merged stream not
\* yet completed, or a stale one with auto-archive on
C2_Witness ==
    /\ call.op = "reconcile"
    /\ CallDryRun(call)
    /\ \E id \in Persisted(streams) :
          \E e \in EntriesOf(result, id) :
              /\ e.newStatus \in {"completed", "archived"}
              /\ e.newStatus # e.previousStatus
              /\ streams[id].status = e.previousStatus

SameBuckets(r1, r2) ==
    /\ \A b \in Buckets :
          /\ {r1[b][i] : i \in DOMAIN r1[b]} = {r2[b][i] : i \in DOMAIN r2[b]}
          /\ Len(r1[b]) = Len(r2[b])
          /\ r1.summary[b] = r2.summary[b]
    /\ r1.orphaned = r2.orphaned
    /\ r1.summary.orphaned = r2.summary.orphaned
    /\ r1.summary.totalInDb = r2.summary.totalInDb
    /\ r1.summary.totalWorktrees = r2.summary.totalWorktrees

\* what the call c returns on the current tables when nothing throws, for
\* each order of the rows
Returned(c, dryRun) ==
    {reconcileWorktrees(streams, history, rows, LiveWorktrees(c), LiveMerged(c), disk,
                        [c.options EXCEPT !.dryRun = dryRun], NoFault).result :
        rows \in getAllStreams(streams)}

----------------------------------------------------------------------------
(* C3: the classification a reconcile call returns (the members and entries   *)
(* of the four buckets and the counts totalInDb, totalWorktrees, active,      *)
(* completed, stale, orphaned) is the one the call with the other dryRun      *)
(* value returns on the same streams, worktrees, merged branches and          *)
(* autoArchiveStale; the errors count agrees as well when no storage          *)
(* statement throws; and a dry run repeated after a dry run with the same     *)
(* autoArchiveStale returns the same buckets and counts.                      *)

C3_SameClassification ==
    [][IsReconcileStep =>
          /\ \A other \in Returned(call', IF CallDryRun(call') THEN "false" ELSE "true") :
                /\ SameBuckets(result', other)
                /\ result'.errors = <<>> => result'.summary.errors = other.summary.errors
          /\ (/\ call.op = "reconcile" /\ CallDryRun(call) /\ CallDryRun(call')
              /\ CallAutoArchive(call) = CallAutoArchive(call') /\ call.gitOk = call'.gitOk)
                => (SameBuckets(result', result) /\ result'.summary = result.summary)]_vars

\* a mutating call changed a status and reported the entry a dry run reports
C3_Witness ==
    /\ call.op = "reconcile"
    /\ ~CallDryRun(call)
    /\ \E id \in Persisted(streams) :
          \E e \in EntriesOf(result, id) :
              /\ e.previousStatus # streams[id].status
              /\ e.newStatus = streams[id].status

StatusChanged(id, old, new) == HistoryEvent(id, "status_changed", old, new)

----------------------------------------------------------------------------
(* C4: a reconcile call with dryRun false on a stream whose branch is merged  *)
(* reports it in completed with previousStatus the status it had and          *)
(* newStatus completed; when that status was not completed (and the storage   *)
(* statements do not throw) the row ends with status completed and            *)
(* completedAt set and exactly one status_changed event old -> completed is   *)
(* appended for it; when it was completed nothing is written for it.          *)

C4_MergedCompleted ==
    [][(IsReconcileStep /\ ~CallDryRun(call')) =>
          \A id \in Persisted(streams) :
              IsMerged(call', streams[id]) =>
                  /\ HistoryKept
                  /\ \E e \in EntriesOf(result', id) :
                        /\ e.previousStatus = streams[id].status
                        /\ e.newStatus = "completed"
                  /\ (streams[id].status # "completed" /\ id \notin ErrorIds(result')) =>
                        /\ streams'[id].status = "completed"
                        /\ streams'[id].completedAt = "set"
                        /\ AppendedFor(id) =
                              <<StatusChanged(id, streams[id].status, "completed")>>
                  /\ streams[id].status = "completed" =>
                        /\ streams'[id] = streams[id]
                        /\ AppendedFor(id) = <<>>]_vars

\* a mutating call completed a merged stream and logged the change
C4_Witness ==
    /\ call.op = "reconcile"
    /\ ~CallDryRun(call)
    /\ \E id \in Persisted(streams) :
          /\ IsMerged(call, streams[id])
          /\ streams[id].status = "completed"
          /\ streams[id].completedAt = "set"
          /\ \E e \in EntriesOf(result, id) : e.previousStatus # "completed"
          /\ history # <<>>
          /\ history[Len(history)].streamId = id
          /\ history[Len(history)].newValue = "completed"

IsStale(c, row) == ~IsMerged(c, row) /\ IsMissing(c, row)

----------------------------------------------------------------------------
(* C5: a stream classified stale is reported with newStatus undefined and its *)
(* row and history are left alone when autoArchiveStale is off, whatever      *)
(* dryRun is; with autoArchiveStale on and dryRun false its status is         *)
(* archived afterwards (the storage statements not throwing), and nothing is  *)
(* written when it already was.                                               *)

C5_StaleAutoArchive ==
    [][IsReconcileStep =>
          \A id \in Persisted(streams) :
              IsStale(call', streams[id]) =>
                  /\ ~CallAutoArchive(call') =>
                        /\ \A e \in EntriesOf(result', id) : e.newStatus = Undefined
                        /\ id \in BucketIds(result', "stale")
                        /\ streams'[id] = streams[id]
                        /\ HistoryKept /\ AppendedFor(id) = <<>>
                  /\ (CallAutoArchive(call') /\ ~CallDryRun(call')
                        /\ id \notin ErrorIds(result')) =>
                        /\ streams'[id].status = "archived"
                        /\ streams[id].status = "archived" =>
                              (streams'[id] = streams[id] /\ AppendedFor(id) = <<>>)
                        /\ streams[id].status # "archived" =>
                              AppendedFor(id) =
                                  <<StatusChanged(id, streams[id].status, "archived")>>]_vars

\* a mutating call without auto-archive left a stale stream as it was
C5_WitnessOff ==
    /\ call.op = "reconcile"
    /\ ~CallDryRun(call)
    /\ ~CallAutoArchive(call)
    /\ \E id \in Persisted(streams) :
          /\ IsStale(call, streams[id])
          /\ id \in BucketIds(result, "stale")
          /\ streams[id].status # "archived"

\* a mutating call with auto-archive archived a stale stream
C5_Witness ==
    /\ call.op = "reconcile"
    /\ ~CallDryRun(call)
    /\ CallAutoArchive(call)
    /\ \E id \in Persisted(streams) :
          /\ IsStale(call, streams[id])
          /\ streams[id].status = "archived"
          /\ \E e \in EntriesOf(result, id) : e.previousStatus # "archived"

OrphanOccurrences(res, info) ==
    Cardinality({i \in DOMAIN res.orphaned : res.orphaned[i] = info})

----------------------------------------------------------------------------
(* C6: after a reconcile every key of the live worktree mapping other than    *)
(* "main" that is not the id of a persisted stream has its worktree exactly   *)
(* once in orphaned, the worktree of a key that is a persisted stream id is   *)
(* not there, no main worktree is there, summary.orphaned is the length of    *)
(* the bucket, and the call creates no stream row.                            *)

C6_Orphans ==
    [][IsReconcileStep =>
          LET worktrees == LiveWorktrees(call')
          IN /\ \A key \in MapKeys(worktrees) :
                   OrphanOccurrences(result', MapGet(worktrees, key)) =
                       (IF key \in DOMAIN streams \/ key = "main" THEN 0 ELSE 1)
             /\ \A i \in DOMAIN result'.orphaned :
                   /\ ~result'.orphaned[i].isMain
                   /\ \E key \in MapKeys(worktrees) :
                         MapGet(worktrees, key) = result'.orphaned[i]
             /\ result'.summary.orphaned = Len(result'.orphaned)
             /\ DOMAIN streams' = DOMAIN streams]_vars

\* a live worktree without a stream was reported while another stream exists
C6_Witness ==
    /\ call.op = "reconcile"
    /\ result.summary.orphaned = 1
    /\ Len(result.orphaned) = 1
    /\ basename(result.orphaned[1].path) \notin DOMAIN streams
    /\ Persisted(streams) # {}

----------------------------------------------------------------------------
(* C7: a reconcile call never turns a stream whose status is completed or     *)
(* archived into an active one.                                               *)

C7_TerminalStatusesKept ==
    [][IsReconcileStep =>
          \A id \in Persisted(streams) :
              streams[id].status \in {"completed", "archived"}
                  => streams'[id].status # "active"]_vars

TargetStatus(c, row) ==
    IF IsMerged(c, row) THEN "completed"
    ELSE IF IsMissing(c, row) THEN "archived"
    ELSE "active"

\* the status update and its history event were both applied
Applied(id) ==
    /\ streams'[id].status = TargetStatus(call', streams[id])
    /\ AppendedFor(id) =
          <<StatusChanged(id, streams[id].status, TargetStatus(call', streams[id]))>>

Untouched(id) == streams'[id] = streams[id] /\ AppendedFor(id) = <<>>

----------------------------------------------------------------------------
(* C8: when a storage statement throws while one stream is processed, the     *)
(* failure is recorded in errors under that stream's id and the call still    *)
(* returns a result in which every persisted stream is classified: each is in *)
(* exactly one bucket and the summary counts cover them all.                  *)

C8_ErrorsIsolated ==
    [][IsReconcileStep =>
          /\ \A id \in Persisted(streams) :
                /\ Occurrences(result', "active", id) + Occurrences(result', "completed", id)
                      + Occurrences(result', "stale", id) = 1
                /\ id \in WriteAttempted(call'.options, call'.gitOk) =>
                      (Applied(id) \/ id \in ErrorIds(result'))
                /\ id \in ErrorIds(result') => ~Applied(id)
                /\ id \notin ErrorIds(result') => (Applied(id) \/ Untouched(id))
          /\ ErrorIds(result') \subseteq Persisted(streams)
          /\ result'.summary.errors = Len(result'.errors)
          /\ result'.summary.totalInDb = Cardinality(Persisted(streams))
          /\ \A b \in Buckets : result'.summary[b] = Len(result'[b])
          /\ result'.summary.active + result'.summary.completed + result'.summary.stale
                = result'.summary.totalInDb]_vars

\* one stream failed and the other was classified and, its turn coming after
\* the failure or before, its status change applied
C8_Witness ==
    /\ call.op = "reconcile"
    /\ Len(result.errors) = 1
    /\ result.summary.totalInDb = 2
    /\ \E id \in Persisted(streams) :
          /\ id \notin ErrorIds(result)
          /\ EntriesOf(result, id) # {}

----------------------------------------------------------------------------
(* C9: after a mutating reconcile each stream either has both its new status  *)
(* and the status_changed event of that change persisted, or neither, also    *)
(* when the history append throws after the status update.                    *)

C9_StatusAndEventTogether ==
    [][(IsReconcileStep /\ ~CallDryRun(call')) =>
          \A id \in Persisted(streams) :
              (streams'[id].status # streams[id].status)
                  <=> (AppendedFor(id) =
                         <<StatusChanged(id, streams[id].status, streams'[id].status)>>)]_vars

----------------------------------------------------------------------------
(* C10: a mutating reconcile that follows at once a mutating reconcile that   *)
(* returned no errors, with the same options and the same git state, attempts *)
(* no write: no stream row changes, no history event is appended, no error    *)
(* can arise, and every stream is in the bucket the first call put it in.     *)

C10_Idempotent ==
    [][(/\ call.op = "reconcile" /\ ~CallDryRun(call) /\ result.errors = <<>>
        /\ IsReconcileStep /\ ~CallDryRun(call')
        /\ CallAutoArchive(call') = CallAutoArchive(call)
        /\ call'.gitOk = call.gitOk)
           => /\ streams' = streams
              /\ history' = history
              /\ result'.errors = <<>>
              /\ \A b \in Buckets : BucketIds(result', b) = BucketIds(result, b)
              /\ result'.orphaned = result.orphaned]_vars

\* the second of two mutating calls in a row found the status the first wrote
C10_Witness ==
    /\ call.op = "reconcile"
    /\ ~CallDryRun(call)
    /\ result.errors = <<>>
    /\ \E id \in Persisted(streams) :
          \E e \in EntriesOf(result, id) :
              /\ e.previousStatus = streams[id].status
              /\ e.previousStatus \in {"completed", "archived"}
              /\ e.newStatus = e.previousStatus
              /\ history # <<>>
              /\ history[Len(history)] \in
                    {StatusChanged(id, old, e.newStatus) : old \in StreamStatus}


----------------------------------------------------------------------------
(* Reconciliation when git fails or the root worktree is off main *)

\* the branches checked out in the root worktree
RootBranches == {"main", "dev"}

\* git checkout in the root worktree
GitCheckoutRoot(branch) ==
    /\ ~Pending
    /\ gitWorktrees[1].branch # branch
    /\ gitWorktrees' = [gitWorktrees EXCEPT ![1].branch = branch]
    /\ call' = Idle
    /\ result' = EmptyResult
    /\ UNCHANGED <<streams, history, gitMerged, disk, retirementVars, serverVars>>

\* the git commands succeed or throw (execSync in a try block)
NextGit ==
    \/ \E files \in PlanDirectories, ok \in BOOLEAN : SyncFromFiles(files, ok)
    \/ \E ok \in BOOLEAN : ReconciliationStatus(ok)
    \/ \E body \in Bodies, ok \in BOOLEAN : ReconciliationRun(body, ok)
    \/ ResponseReceived
    \/ \E name \in WorktreeNames : GitWorktreeAdd(name)
    \/ \E i \in 2..MaxWorktrees : GitWorktreeRemove(i)
    \/ \E branch \in RootBranches : GitCheckoutRoot(branch)

SpecGit == Init /\ [][NextGit]_vars

\* the live worktrees other than main that a call saw
NonMainWorktrees(c) == MapKeys(LiveWorktrees(c)) \ {"main"}

----------------------------------------------------------------------------
(* C11: in every reconciliation result summary.totalWorktrees is the number   *)
(* of live worktrees other than main, so it is never negative and never less  *)
(* than summary.orphaned, also when git failed or when no worktree is on      *)
(* main/master; summary.totalInDb is the number of persisted streams.         *)

C11_TotalWorktrees ==
    call.op = "reconcile" =>
        /\ result.summary.totalWorktrees = Cardinality(NonMainWorktrees(call))
        /\ result.summary.totalWorktrees >= 0
        /\ result.summary.totalWorktrees >= result.summary.orphaned
        /\ result.summary.totalInDb = Cardinality(Persisted(streams))

----------------------------------------------------------------------------
(* Retirement service (services/retirement-service.ts)                     *)
(*                                                                         *)
(* retireStream is an async function: between two awaits it runs without   *)
(* interruption, and at an await other requests are served. Each action    *)
(* below is the completion of one awaited git command together with the    *)
(* synchronous code that follows it up to the next await. The awaits of    *)
(* writeArchiveReport (log, add, commit, push) are one step, and so are    *)
(* the commit and push of the planning cleanup. The date in the archive    *)
(* file name is left out.                                                  *)

Md(id) ==
    CASE id = "s1" -> "s1.md" [] id = "s2" -> "s2.md" [] OTHER -> "x.md"
RetiredMd(id) ==
    CASE id = "s1" -> "s1-RETIRED.md" [] id = "s2" -> "s2-RETIRED.md"
      [] OTHER -> "x-RETIRED.md"
HistoryDir == ".project/history"
PlanRoot == ".project/plan/streams"
ArchivePath(id) == join(HistoryDir, RetiredMd(id))
PlanDir(id) == join(PlanRoot, id)
PlanFile(id) == join(PlanRoot, Md(id))
\* retireStream looks for the worktree under worktreeRoot
RetireWorktreePath(stream) == join(WorktreeRoot, stream.id)

\* an option of retireStream after its default (all default to true)
Enabled(q, name) == Default(q.options[name], "true") = "true"

\* the tables, the filesystem and git as one request q sees and changes
\* them; ran collects the synchronous statements that may throw
World(r) ==
    [q |-> reqs[r], streams |-> streams, history |-> history,
     commits |-> commits, jobs |-> jobs, disk |-> disk,
     gitWorktrees |-> gitWorktrees, gitMerged |-> gitMerged, ran |-> {}]

PushRetirementError(w, message) ==
    [w EXCEPT !.q.result.errors = Append(@, message)]
Attempt(w, op) == [w EXCEPT !.q.ops = Append(@, op)]

\* the row queueSummaryJob inserts
SummaryJob(stream, userSummary, historyFilePath) ==
    [streamId |-> stream.id, branch |-> stream.branch,
     worktreePath |-> stream.worktreePath, completedAt |-> stream.completedAt,
     userSummary |-> userSummary, historyFilePath |-> historyFilePath,
     status |-> "pending"]
queueSummaryJob(table, stream, userSummary, historyFilePath) ==
    Append(table, SummaryJob(stream, userSummary, historyFilePath))

\* deleteStream that leaves the commits and the history of the stream
deleteStream_KeepRows(w, streamId) ==
    [w EXCEPT !.streams = [id \in (DOMAIN @) \ {streamId} |->
                              IF @[id].blockedBy = streamId
                              THEN [@[id] EXCEPT !.blockedBy = Null]
                              ELSE @[id]]]
\* deleteStream: the commits, the history and the row of one stream; the
\* schema sets blocked_by to null in the rows that referred to the deleted one
deleteStream(w, streamId) ==
    [w EXCEPT !.commits = SelectSeq(@, LAMBDA c : c.streamId # streamId),
              !.history = SelectSeq(@, LAMBDA e : e.streamId # streamId),
              !.streams = [id \in (DOMAIN @) \ {streamId} |->
                              IF @[id].blockedBy = streamId
                              THEN [@[id] EXCEPT !.blockedBy = Null]
                              ELSE @[id]]]
getStream(db, streamId) ==
    IF streamId \in DOMAIN db THEN db[streamId] ELSE NoStream

\* what the routes answer
Response(status, body) == [status |-> status, body |-> body]
RetirementReport(res) ==
    [worktreeDeleted |-> res.worktreeDeleted, archiveWritten |-> res.archiveWritten,
     planFilesCleanedUp |-> res.planFilesCleanedUp]
\* one entry of the results of POST /archive-bulk; error is the list of the
\* messages joined into the error string, empty when the field is left out
BulkEntry(streamId, success, deleted, error, retirement) ==
    [streamId |-> streamId, success |-> success, deleted |-> deleted,
     error |-> error, retirement |-> retirement]
NoReport == [worktreeDeleted |-> Undefined, archiveWritten |-> Undefined,
             planFilesCleanedUp |-> Undefined]
RetiredEvent(streamId, previousStatus) ==
    HistoryEvent(streamId, "completed", previousStatus,
                 "retired and deleted from database")

\* the insert into stream_history fails on a stream id without a row
\* (foreign key), or because the statement throws
HistoryInsertFails(w, streamId, throws) ==
    "addHistoryEvent" \in throws \/ streamId \notin DOMAIN w.streams

RECURSIVE BulkLoop(_, _)
RECURSIVE RetireEntry(_, _)
RECURSIVE AfterArchive(_, _)
RECURSIVE AfterWorktree(_, _)
RECURSIVE PlanFileCheck(_, _)
RECURSIVE PlanFinish(_, _)
RECURSIVE ReturnResult(_, _)

\* POST /:id/archive after retireStream has returned
SingleAfterRetire(w, throws) ==
    LET id == w.q.stream.id
        tried == [w EXCEPT !.ran = @ \cup {"addHistoryEvent"}]
        failed == [tried EXCEPT !.q.pc = "done",
                                !.q.response = Response(500, "Failed to retire stream")]
    IN IF HistoryInsertFails(w, id, throws) THEN failed
       ELSE LET logged == [tried EXCEPT
                              !.history = addHistoryEvent(@, RetiredEvent(id, w.q.stream.status)),
                              !.ran = @ \cup {"deleteStream"}]
            IN IF "deleteStream" \in throws
               THEN [logged EXCEPT !.q.pc = "done",
                                   !.q.response = Response(500, "Failed to retire stream")]
               ELSE [deleteStream(logged, id) EXCEPT
                        !.q.pc = "done",
                        !.q.response = Response(200,
                            [success |-> w.q.result.success, streamId |-> id,
                             deleted |-> "true",
                             retirement |->
                                 [worktreeDeleted |-> w.q.result.worktreeDeleted,
                                  archiveWritten |-> w.q.result.archiveWritten,
                                  planFilesCleanedUp |-> w.q.result.planFilesCleanedUp,
                                  errors |-> w.q.result.errors]])]

\* one item of POST /archive-bulk after retireStream has returned
BulkAfterRetire(w, throws) ==
    LET id == w.q.stream.id
        tried == [w EXCEPT !.ran = @ \cup {"addHistoryEvent"}]
        caught(v) == [v EXCEPT !.q.results =
                         Append(@, BulkEntry(id, FALSE, Undefined, <<"exception">>, NoReport))]
    IN IF HistoryInsertFails(w, id, throws) THEN BulkLoop(caught(tried), throws)
       ELSE LET logged == [tried EXCEPT
                              !.history = addHistoryEvent(@, RetiredEvent(id, w.q.stream.status)),
                              !.ran = @ \cup {"deleteStream"}]
            IN IF "deleteStream" \in throws THEN BulkLoop(caught(logged), throws)
               ELSE BulkLoop(
                        [deleteStream(logged, id) EXCEPT !.q.results =
                            Append(@, BulkEntry(id, w.q.result.success, "true",
                                                w.q.result.errors,
                                                RetirementReport(w.q.result)))],
                        throws)

\* a retireStream that reports success whatever the steps recorded
ReturnResult_Success(w, throws) ==
    LET returned == [w EXCEPT !.q.result.success = TRUE]
    IN CASE w.q.kind = "call" -> [returned EXCEPT !.q.pc = "done"]
         [] w.q.kind = "single" -> SingleAfterRetire(returned, throws)
         [] w.q.kind = "bulk" -> BulkAfterRetire(returned, throws)
\* the end of retireStream: success is derived from errors, and the caller
\* goes on
ReturnResult(w, throws) ==
    LET returned == [w EXCEPT !.q.result.success = (w.q.result.errors = <<>>)]
    IN CASE w.q.kind = "call" -> [returned EXCEPT !.q.pc = "done"]
         [] w.q.kind = "single" -> SingleAfterRetire(returned, throws)
         [] w.q.kind = "bulk" -> BulkAfterRetire(returned, throws)

\* step 4 after the removals: commit and push when something was removed
PlanFinish(w, throws) ==
    IF w.q.cleaned
    THEN [Attempt(w, "plan commit") EXCEPT !.q.pc = "planCommit"]
    ELSE ReturnResult([w EXCEPT !.q.result.planFilesCleanedUp = TRUE], throws)

PlanFileCheck(w, throws) ==
    IF PlanFile(w.q.stream.id) \in w.disk
    THEN [Attempt(w, "plan rm file") EXCEPT !.q.pc = "planFile"]
    ELSE PlanFinish(w, throws)

\* step 4: planning files
AfterWorktree(w, throws) ==
    IF Enabled(w.q, "cleanupPlanFiles")
    THEN IF PlanDir(w.q.stream.id) \in w.disk
         THEN [Attempt(w, "plan rm dir") EXCEPT !.q.pc = "planDir"]
         ELSE PlanFileCheck(w, throws)
    ELSE ReturnResult(w, throws)

\* a summary-job step that only looks at its option
AfterArchive_QueueAlways(w, throws) ==
    LET stream == w.q.stream
        queueing == Enabled(w.q, "queueIntelligentSummary")
        tried == [Attempt(w, "queue summary job") EXCEPT
                     !.ran = @ \cup {"queueSummaryJob"}]
        queued ==
            IF ~queueing THEN w
            ELSE IF "queueSummaryJob" \in throws
            THEN PushRetirementError(tried, "Failed to queue summary job")
            ELSE [tried EXCEPT
                     !.jobs = queueSummaryJob(@, stream, w.q.summary, w.q.archivePath),
                     !.q.result.summaryJobQueued = TRUE]
        worktreePath == RetireWorktreePath(stream)
    IN IF Enabled(w.q, "deleteWorktree") /\ worktreePath \in queued.disk
       THEN [Attempt(queued, "worktree remove") EXCEPT !.q.pc = "worktree"]
       ELSE IF worktreePath \notin queued.disk
       THEN AfterWorktree([queued EXCEPT !.q.result.worktreeDeleted = TRUE], throws)
       ELSE AfterWorktree(queued, throws)
\* step 2 (summary job), then the tests that open step 3 (worktree)
AfterArchive(w, throws) ==
    LET stream == w.q.stream
        queueing == /\ Enabled(w.q, "queueIntelligentSummary")
                    /\ w.q.options.db # Undefined
                    /\ w.q.archivePath # NoPath
        tried == [Attempt(w, "queue summary job") EXCEPT
                     !.ran = @ \cup {"queueSummaryJob"}]
        queued ==
            IF ~queueing THEN w
            ELSE IF "queueSummaryJob" \in throws
            THEN PushRetirementError(tried, "Failed to queue summary job")
            ELSE [tried EXCEPT
                     !.jobs = queueSummaryJob(@, stream, w.q.summary, w.q.archivePath),
                     !.q.result.summaryJobQueued = TRUE]
        worktreePath == RetireWorktreePath(stream)
    IN IF Enabled(w.q, "deleteWorktree") /\ worktreePath \in queued.disk
       THEN [Attempt(queued, "worktree remove") EXCEPT !.q.pc = "worktree"]
       ELSE IF worktreePath \notin queued.disk
       THEN AfterWorktree([queued EXCEPT !.q.result.worktreeDeleted = TRUE], throws)
       ELSE AfterWorktree(queued, throws)

\* a retireStream that goes to the worktree without writing the archive
RetireEntry_NoArchive(w, throws) ==
    AfterArchive([w EXCEPT !.q.result = NewRetirementResult(w.q.stream.id),
                           !.q.archivePath = NoPath,
                           !.q.cleaned = FALSE,
                           !.q.ops = <<>>], throws)
\* retireStream up to its first await; w.q holds the stream, the summary
\* and the options of the call
RetireEntry(w, throws) ==
    LET started == [w EXCEPT !.q.result = NewRetirementResult(w.q.stream.id),
                             !.q.archivePath = NoPath,
                             !.q.cleaned = FALSE,
                             !.q.ops = <<>>]
    IN IF Enabled(started.q, "writeArchive")
       THEN [Attempt(started, "archive") EXCEPT !.q.pc = "archive"]
       ELSE AfterArchive(started, throws)

\* a POST /archive-bulk whose loop has no try/catch: the first exception
\* ends the request
BulkLoop_Abort(w, throws) ==
    LET i == Len(w.q.results) + 1
        push(entry) == [w EXCEPT !.q.results = Append(@, entry),
                                 !.ran = @ \cup {"getStream"}]
    IN IF i > Len(w.q.ids)
       THEN [w EXCEPT
                !.q.pc = "done",
                !.q.response = Response(200,
                    [success |-> \A k \in DOMAIN w.q.results : w.q.results[k].success,
                     results |-> w.q.results])]
       ELSE LET streamId == w.q.ids[i]
                stream == getStream(w.streams, streamId)
            IN IF "getStream" \in throws
               THEN [w EXCEPT !.q.pc = "done", !.ran = @ \cup {"getStream"},
                              !.q.response = Response(500, "Failed to retire streams")]
               ELSE IF stream = NoStream
               THEN BulkLoop(push(BulkEntry(streamId, FALSE, Undefined,
                                            <<"Not found">>, NoReport)), throws)
               ELSE IF stream.status = "archived"
               THEN BulkLoop(push(BulkEntry(streamId, TRUE, Undefined,
                                            <<"Already retired">>, NoReport)), throws)
               ELSE IF stream.status # "completed"
               THEN BulkLoop(push(BulkEntry(streamId, FALSE, Undefined,
                                            <<"Cannot retire: status must be completed">>,
                                            NoReport)), throws)
               ELSE RetireEntry([w EXCEPT !.q.stream = stream,
                                          !.ran = @ \cup {"getStream"}], throws)
\* the loop of POST /archive-bulk from the item after the last result
BulkLoop(w, throws) ==
    LET i == Len(w.q.results) + 1
        push(entry) == [w EXCEPT !.q.results = Append(@, entry),
                                 !.ran = @ \cup {"getStream"}]
    IN IF i > Len(w.q.ids)
       THEN [w EXCEPT
                !.q.pc = "done",
                !.q.response = Response(200,
                    [success |-> \A k \in DOMAIN w.q.results : w.q.results[k].success,
                     results |-> w.q.results])]
       ELSE LET streamId == w.q.ids[i]
                stream == getStream(w.streams, streamId)
            IN IF "getStream" \in throws
               THEN BulkLoop(push(BulkEntry(streamId, FALSE, Undefined,
                                            <<"exception">>, NoReport)),
                             throws \ {"getStream"})
               ELSE IF stream = NoStream
               THEN BulkLoop(push(BulkEntry(streamId, FALSE, Undefined,
                                            <<"Not found">>, NoReport)), throws)
               ELSE IF stream.status = "archived"
               THEN BulkLoop(push(BulkEntry(streamId, TRUE, Undefined,
                                            <<"Already retired">>, NoReport)), throws)
               ELSE IF stream.status # "completed"
               THEN BulkLoop(push(BulkEntry(streamId, FALSE, Undefined,
                                            <<"Cannot retire: status must be completed">>,
                                            NoReport)), throws)
               ELSE RetireEntry([w EXCEPT !.q.stream = stream,
                                          !.ran = @ \cup {"getStream"}], throws)

\* the statements that may throw between two awaits
SyncStatements ==
    {"getStream", "queueSummaryJob", "rmSync", "addHistoryEvent", "deleteStream"}
\* the ones taken to throw on their own; the two writes of the routes fail
\* only as the schema makes them fail (HistoryInsertFails)
Throwing == SUBSET {"getStream", "queueSummaryJob", "rmSync"}

\* request r has run up to its next await (or to its end) and left w
Apply(r, w, throws) ==
    /\ throws \subseteq w.ran
    /\ reqs' = [reqs EXCEPT ![r] = w.q]
    /\ streams' = w.streams
    /\ history' = w.history
    /\ commits' = w.commits
    /\ jobs' = w.jobs
    /\ disk' = w.disk
    /\ gitWorktrees' = w.gitWorktrees
    /\ gitMerged' = w.gitMerged
    /\ UNCHANGED <<call, result, serverVars>>

\* a client sends one request; what a later request of the same client does is
\* what the request of another client does from the state the first one left
Free(r) == reqs[r].pc = "idle"
NewRequest(kind, ids, stream, summary, options) ==
    [IdleRequest EXCEPT !.kind = kind, !.ids = ids, !.stream = stream,
                        !.summary = summary, !.options = options]

\* a call of the exported retireStream on a stream read from storage
RetireStreamCall(r, id, summary, options, throws) ==
    /\ Free(r)
    /\ id \in DOMAIN streams
    /\ Apply(r, RetireEntry([World(r) EXCEPT !.q =
                    NewRequest("call", <<>>, streams[id], summary, options)], throws),
             throws)

\* the options the two routes pass to retireStream
RouteOptions(body) ==
    [deleteWorktree |-> Default(body.deleteWorktree, "true"),
     cleanupPlanFiles |-> Default(body.cleanupPlanFiles, "true"),
     writeArchive |-> Undefined, queueIntelligentSummary |-> "true", db |-> "db"]

\* a POST /:id/archive that retires a stream in any status
ArchiveRequest_AnyStatus(r, id, body, throws) ==
    LET stream == getStream(streams, id)
        w == [World(r) EXCEPT
                 !.q = NewRequest("single", <<id>>, stream,
                                  Default(body.summary, "Stream completed and retired"),
                                  RouteOptions(body)),
                 !.ran = {"getStream"}]
        answer(status, body2) ==
            [w EXCEPT !.q.pc = "done", !.q.response = Response(status, body2)]
    IN /\ Free(r)
       /\ Apply(r,
                IF "getStream" \in throws THEN answer(500, "Failed to retire stream")
                ELSE IF stream = NoStream THEN answer(404, "Stream not found")
                ELSE RetireEntry(w, throws),
                throws)
\* POST /:id/archive up to the first await of retireStream
ArchiveRequest(r, id, body, throws) ==
    LET stream == getStream(streams, id)
        w == [World(r) EXCEPT
                 !.q = NewRequest("single", <<id>>, stream,
                                  Default(body.summary, "Stream completed and retired"),
                                  RouteOptions(body)),
                 !.ran = {"getStream"}]
        answer(status, body2) ==
            [w EXCEPT !.q.pc = "done", !.q.response = Response(status, body2)]
    IN /\ Free(r)
       /\ Apply(r,
                IF "getStream" \in throws THEN answer(500, "Failed to retire stream")
                ELSE IF stream = NoStream THEN answer(404, "Stream not found")
                ELSE IF stream.status # "completed" THEN answer(400, "Cannot retire stream")
                ELSE RetireEntry(w, throws),
                throws)

\* POST /archive-bulk up to the first await of retireStream
ArchiveBulkRequest(r, body, throws) ==
    LET w == [World(r) EXCEPT
                 !.q = NewRequest("bulk", body.streamIds, NoStream,
                                  Default(body.summary, "Bulk retirement"),
                                  RouteOptions(body))]
    IN /\ Free(r)
       /\ Apply(r,
                IF body.streamIds = <<>>
                THEN [w EXCEPT !.q.pc = "done",
                               !.q.response = Response(400, "streamIds must be a non-empty array")]
                ELSE BulkLoop(w, throws),
                throws)

\* writeArchiveReport has returned or thrown: "written" (file written,
\* committed and pushed), "writeFailed" (mkdirSync or writeFileSync threw),
\* "pushFailed" (the file is written; git add, commit or push threw)
ArchiveOutcomes == {"written", "writeFailed", "pushFailed"}
\* a retireStream that returns as soon as the archive step has failed
ArchiveReportDone_Abort(r, outcome, throws) ==
    LET w == World(r)
        path == ArchivePath(w.q.stream.id)
    IN /\ reqs[r].pc = "archive"
       /\ Apply(r,
                IF outcome = "written"
                THEN AfterArchive([w EXCEPT !.disk = @ \cup {path},
                                           !.q.archivePath = path,
                                           !.q.result.archiveWritten = TRUE], throws)
                ELSE ReturnResult(PushRetirementError(w, "Archive write failed"), throws),
                throws)
ArchiveReportDone(r, outcome, throws) ==
    LET w == World(r)
        path == ArchivePath(w.q.stream.id)
        after ==
            CASE outcome = "written" ->
                    [w EXCEPT !.disk = @ \cup {path}, !.q.archivePath = path,
                              !.q.result.archiveWritten = TRUE]
              [] outcome = "writeFailed" ->
                    PushRetirementError(w, "Archive write failed")
              [] outcome = "pushFailed" ->
                    PushRetirementError([w EXCEPT !.disk = @ \cup {path}],
                                        "Archive write failed")
    IN /\ reqs[r].pc = "archive"
       /\ Apply(r, AfterArchive(after, throws), throws)

Registered(worktrees, path) ==
    \E k \in DOMAIN worktrees : k > 1 /\ worktrees[k].path = path
ToBranchDelete(w) == [Attempt(w, "branch delete") EXCEPT !.q.pc = "branch"]

\* a worktree step without the fallback: a failed removal is the failure of
\* the step
WorktreeRemoveDone_NoFallback(r, ok, throws) ==
    LET w == World(r)
        path == RetireWorktreePath(w.q.stream)
    IN /\ reqs[r].pc = "worktree"
       /\ ok => Registered(gitWorktrees, path)
       /\ Apply(r,
                IF ok
                THEN ToBranchDelete(
                         [w EXCEPT !.gitWorktrees = SelectSeq(@, LAMBDA e : e.path # path),
                                   !.disk = @ \ {path},
                                   !.q.result.worktreeDeleted = TRUE])
                ELSE AfterWorktree(
                         PushRetirementError(w, "Worktree deletion failed"), throws),
                throws)
\* `git worktree remove --force` has returned (ok) or thrown; when it threw
\* the catch removes the directory and starts `git worktree prune`
WorktreeRemoveDone(r, ok, throws) ==
    LET w == World(r)
        path == RetireWorktreePath(w.q.stream)
        forced == [Attempt(w, "rm directory") EXCEPT !.ran = @ \cup {"rmSync"}]
    IN /\ reqs[r].pc = "worktree"
       /\ ok => Registered(gitWorktrees, path)
       /\ Apply(r,
                IF ok
                THEN ToBranchDelete(
                         [w EXCEPT !.gitWorktrees = SelectSeq(@, LAMBDA e : e.path # path),
                                   !.disk = @ \ {path},
                                   !.q.result.worktreeDeleted = TRUE])
                ELSE IF "rmSync" \in throws
                THEN AfterWorktree(
                         PushRetirementError(forced, "Worktree deletion failed"), throws)
                ELSE [Attempt([forced EXCEPT !.disk = @ \ {path}], "worktree prune")
                         EXCEPT !.q.pc = "prune"],
                throws)

\* `git worktree prune` has returned or thrown
WorktreePruneDone(r, ok, throws) ==
    LET w == World(r)
    IN /\ reqs[r].pc = "prune"
       /\ Apply(r,
                IF ok
                THEN ToBranchDelete(
                         [w EXCEPT !.gitWorktrees =
                                       <<Head(@)>> \o SelectSeq(Tail(@),
                                            LAMBDA e : e.path \in w.disk),
                                   !.q.result.worktreeDeleted = TRUE])
                ELSE AfterWorktree(
                         PushRetirementError(w, "Worktree deletion failed"), throws),
                throws)

\* a worktree step in which a failed `git branch -d` reaches the catch of
\* the step
BranchDeleteDone_Fatal(r, ok, throws) ==
    LET w == World(r)
        branch == w.q.stream.branch
    IN /\ reqs[r].pc = "branch"
       /\ ok => /\ branch \in gitMerged
                /\ \A k \in DOMAIN gitWorktrees : gitWorktrees[k].branch # branch
       /\ Apply(r,
                AfterWorktree(IF ok THEN [w EXCEPT !.gitMerged = @ \ {branch}]
                              ELSE PushRetirementError(w, "Worktree deletion failed"),
                              throws),
                throws)
\* `git branch -d` has returned or thrown (not merged, checked out, or gone)
BranchDeleteDone(r, ok, throws) ==
    LET w == World(r)
        branch == w.q.stream.branch
    IN /\ reqs[r].pc = "branch"
       /\ ok => /\ branch \in gitMerged
                /\ \A k \in DOMAIN gitWorktrees : gitWorktrees[k].branch # branch
       /\ Apply(r,
                AfterWorktree(IF ok THEN [w EXCEPT !.gitMerged = @ \ {branch}] ELSE w,
                              throws),
                throws)

PlanFailed(w, throws) ==
    ReturnResult(PushRetirementError(w, "Plan files cleanup failed"), throws)

\* `git rm -rf` of the planning directory has returned or thrown
PlanDirRemoveDone(r, ok, throws) ==
    LET w == World(r)
        path == PlanDir(w.q.stream.id)
    IN /\ reqs[r].pc = "planDir"
       /\ ok => path \in disk
       /\ Apply(r,
                IF ok
                THEN PlanFileCheck([w EXCEPT !.disk = @ \ {path}, !.q.cleaned = TRUE],
                                   throws)
                ELSE PlanFailed(w, throws),
                throws)

\* `git rm` of the planning file has returned or thrown
PlanFileRemoveDone(r, ok, throws) ==
    LET w == World(r)
        path == PlanFile(w.q.stream.id)
    IN /\ reqs[r].pc = "planFile"
       /\ ok => path \in disk
       /\ Apply(r,
                IF ok
                THEN PlanFinish([w EXCEPT !.disk = @ \ {path}, !.q.cleaned = TRUE],
                                throws)
                ELSE PlanFailed(w, throws),
                throws)

\* the commit and the push of the removals have returned, or one has thrown
PlanCommitDone(r, ok, throws) ==
    LET w == World(r)
    IN /\ reqs[r].pc = "planCommit"
       /\ Apply(r,
                IF ok
                THEN ReturnResult([w EXCEPT !.q.result.planFilesCleanedUp = TRUE], throws)
                ELSE PlanFailed(w, throws),
                throws)

----------------------------------------------------------------------------
(* Retirement of one stream at a time: one client, every option, every     *)
(* outcome of every step                                                   *)

\* s1 is a completed, merged stream; its worktree directory, its
\* registration in git and its planning files may each be there or not
RetirableRow(id, status) ==
    [id |-> id, status |-> status,
     completedAt |-> IF status \in {"completed", "archived"} THEN "set" ELSE Null,
     worktreePath |-> join(WorktreeRoot, id), branch |-> id,
     blockedBy |-> Null, progress |-> 0]
WorktreeStates == {"registered", "unregistered", "gone"}
PlanStates == {{}, {PlanFile("s1")}, {PlanDir("s1"), PlanFile("s1")}}
OtherStatuses == {"absent", "active", "archived", "completed"}

InitRetirement(other, worktree, plan) ==
    /\ streams = [id \in {"s1"} \cup (IF other = "absent" THEN {} ELSE {"s2"}) |->
                     RetirableRow(id, IF id = "s1" THEN "completed" ELSE other)]
    /\ history = <<HistoryEvent("s1", "status_changed", "active", "completed")>>
    /\ commits = <<[streamId |-> "s1", commitHash |-> "c1", filesChanged |-> 1]>>
    /\ jobs = <<>>
    /\ gitWorktrees = <<[path |-> ProjectRoot, branch |-> "main"]>>
                      \o (IF worktree = "registered"
                          THEN <<[path |-> join(WorktreeRoot, "s1"), branch |-> "s1"]>>
                          ELSE <<>>)
    /\ gitMerged = {"main", "s1"}
    /\ disk = plan \cup (IF worktree = "gone" THEN {} ELSE {join(WorktreeRoot, "s1")})
    /\ call = Idle
    /\ result = EmptyResult
    /\ ServerIdle

InitRetire ==
    /\ \E other \in OtherStatuses, worktree \in WorktreeStates, plan \in PlanStates :
           InitRetirement(other, worktree, plan)
    /\ reqs = [r \in Requests |-> IdleRequest]

\* the options of a direct call, and the bodies of the two routes
Switch == {Undefined, "false"}
RetirementOptionSets ==
    [deleteWorktree : Switch, cleanupPlanFiles : Switch, writeArchive : Switch,
     queueIntelligentSummary : Switch, db : {Undefined, "db"}]
ArchiveBodies ==
    [summary : {Undefined}, deleteWorktree : Switch, cleanupPlanFiles : Switch]
RECURSIVE IdLists(_)
IdLists(n) ==
    IF n = 0 THEN {<<>>}
    ELSE IdLists(n - 1) \cup
         {Append(l, id) : l \in {x \in IdLists(n - 1) : Len(x) = n - 1}, id \in StreamIds}
BulkBodies ==
    [streamIds : IdLists(MaxBulk), summary : {Undefined},
     deleteWorktree : {Undefined}, cleanupPlanFiles : Switch]

\* the completions of the awaited commands of request r, with the
\* statements T that may throw after them
RetirementStep(r, T) ==
    \E throws \in T :
        \/ \E outcome \in ArchiveOutcomes : ArchiveReportDone(r, outcome, throws)
        \/ \E ok \in BOOLEAN : WorktreeRemoveDone(r, ok, throws)
        \/ \E ok \in BOOLEAN : WorktreePruneDone(r, ok, throws)
        \/ \E ok \in BOOLEAN : BranchDeleteDone(r, ok, throws)
        \/ \E ok \in BOOLEAN : PlanDirRemoveDone(r, ok, throws)
        \/ \E ok \in BOOLEAN : PlanFileRemoveDone(r, ok, throws)
        \/ \E ok \in BOOLEAN : PlanCommitDone(r, ok, throws)

NextRetire ==
    \/ \E options \in RetirementOptionSets, throws \in Throwing :
           RetireStreamCall("r1", "s1", "done", options, throws)
    \/ \E id \in StreamIds, body \in ArchiveBodies, throws \in Throwing :
           ArchiveRequest("r1", id, body, throws)
    \/ \E body \in BulkBodies, throws \in Throwing :
           ArchiveBulkRequest("r1", body, throws)
    \/ RetirementStep("r1", Throwing)

SpecRetire == InitRetire /\ [][NextRetire]_vars

----------------------------------------------------------------------------
(* Two clients that ask for the retirement of the same stream: the server  *)
(* handles the second request while the first waits for a git command      *)

InitRace ==
    /\ InitRetirement("absent", "registered", {PlanDir("s1"), PlanFile("s1")})
    /\ reqs = [r \in Requests |-> IdleRequest]

DefaultBody ==
    [summary |-> Undefined, deleteWorktree |-> Undefined, cleanupPlanFiles |-> Undefined]
BulkOfOne ==
    [streamIds |-> <<"s1">>, summary |-> Undefined,
     deleteWorktree |-> Undefined, cleanupPlanFiles |-> Undefined]

NextRace ==
    \E r \in Requests :
        \/ ArchiveRequest(r, "s1", DefaultBody, {})
        \/ ArchiveBulkRequest(r, BulkOfOne, {})
        \/ RetirementStep(r, {{}})

SpecRace == InitRace /\ [][NextRace]_vars

----------------------------------------------------------------------------
(* Claims about retireStream *)

Has(seq, x) == \E i \in DOMAIN seq : seq[i] = x
\* request r has run retireStream to its end and has finished
RetireReturned(r) == reqs[r].pc = "done" /\ reqs[r].result.streamId # Null
WorktreeStepRan(q) ==
    q.result.worktreeDeleted <=> ~Has(q.result.errors, "Worktree deletion failed")
PlanStepRan(q) ==
    q.result.planFilesCleanedUp <=> ~Has(q.result.errors, "Plan files cleanup failed")

\* C12: a failed archive step does not stop retireStream. When it has
\* returned, success is false if the archive failed, and whatever failed
\* before them the enabled worktree step and the enabled plan-file step have
\* run: each reports its own outcome (its flag is true exactly when it left
\* no error), a worktree directory that exists had its removal attempted,
\* and a planning file that is still there had a removal attempted.
C12_LaterStepsRun ==
    \A r \in Requests :
        RetireReturned(r) =>
            LET q == reqs[r]
                id == q.stream.id
            IN /\ Has(q.result.errors, "Archive write failed") =>
                      ~q.result.success /\ ~q.result.archiveWritten
               /\ Enabled(q, "writeArchive") => Has(q.ops, "archive")
               /\ Enabled(q, "deleteWorktree") =>
                      /\ WorktreeStepRan(q)
                      /\ Has(q.ops, "worktree remove") \/ RetireWorktreePath(q.stream) \notin disk
               /\ Enabled(q, "cleanupPlanFiles") =>
                      /\ PlanStepRan(q)
                      /\ PlanDir(id) \in disk => Has(q.ops, "plan rm dir")
                      /\ PlanFile(id) \in disk =>
                             Has(q.ops, "plan rm dir") \/ Has(q.ops, "plan rm file")

\* the archive failed, the worktree was removed and the plan files cleaned
C12_Witness ==
    \E r \in Requests :
        /\ RetireReturned(r)
        /\ reqs[r].result.errors = <<"Archive write failed">>
        /\ reqs[r].result.worktreeDeleted /\ reqs[r].result.planFilesCleanedUp
        /\ Has(reqs[r].ops, "worktree remove") /\ Has(reqs[r].ops, "plan commit")

\* the messages of the four steps, in the order of the steps
StepErrors == <<"Archive write failed", "Failed to queue summary job",
                "Worktree deletion failed", "Plan files cleanup failed">>
StepRank(message) == CHOOSE i \in DOMAIN StepErrors : StepErrors[i] = message

\* C13: success is true exactly when errors is empty in every result
\* retireStream returns; errors holds at most one entry per step, each with
\* the prefix of its step; a step that ran and did not set its flag left its
\* entry; a step that is disabled, or skipped, left none.
C13_SuccessIffNoErrors ==
    \A r \in Requests :
        LET q == reqs[r]
            errors == q.result.errors
        IN /\ \A i \in DOMAIN errors :
                  /\ Has(StepErrors, errors[i])
                  /\ \A j \in DOMAIN errors :
                         i < j => StepRank(errors[i]) < StepRank(errors[j])
           /\ RetireReturned(r) =>
                  /\ q.result.success <=> errors = <<>>
                  /\ Has(errors, "Archive write failed") <=>
                         Enabled(q, "writeArchive") /\ ~q.result.archiveWritten
                  /\ Has(errors, "Failed to queue summary job") <=>
                         /\ Enabled(q, "queueIntelligentSummary")
                         /\ q.options.db # Undefined
                         /\ q.result.archiveWritten /\ ~q.result.summaryJobQueued
                  /\ Has(errors, "Worktree deletion failed") <=>
                         /\ Enabled(q, "deleteWorktree")
                         /\ Has(q.ops, "worktree remove") /\ ~q.result.worktreeDeleted
                  /\ Has(errors, "Plan files cleanup failed") <=>
                         Enabled(q, "cleanupPlanFiles") /\ ~q.result.planFilesCleanedUp

\* three steps failed, one did not run; and a result without any error
C13_Witness ==
    \E r \in Requests :
        /\ RetireReturned(r)
        /\ reqs[r].result.errors = <<"Archive write failed", "Worktree deletion failed",
                                     "Plan files cleanup failed">>
        /\ ~reqs[r].result.success /\ ~reqs[r].result.summaryJobQueued

\* the commands and writes of retireStream in the order of its text
OpOrder == <<"archive", "queue summary job", "worktree remove", "rm directory",
             "worktree prune", "branch delete", "plan rm dir", "plan rm file",
             "plan commit">>
OpRank(op) == CHOOSE i \in DOMAIN OpOrder : OpOrder[i] = op
WorktreeOps == {"worktree remove", "rm directory", "worktree prune", "branch delete"}
PlanOps == {"plan rm dir", "plan rm file", "plan commit"}
ArchiveFinished(q) ==
    Enabled(q, "writeArchive") =>
        /\ Has(q.ops, "archive")
        /\ q.pc # "archive"
        /\ q.result.archiveWritten \/ Has(q.result.errors, "Archive write failed")
WorktreeFinished(q) ==
    /\ q.pc \notin {"worktree", "prune", "branch"}
    /\ Has(q.ops, "worktree remove") =>
           q.result.worktreeDeleted \/ Has(q.result.errors, "Worktree deletion failed")

\* C14: what one execution of retireStream has started so far is in the
\* order archive report, summary job, worktree and branch, plan files, each
\* at most once; once a command of the worktree step has started the archive
\* step has finished (written or failed), and once a command of the plan-file
\* step has started the archive step and the worktree step have finished.
C14_FixedOrder ==
    \A r \in Requests :
        LET q == reqs[r]
        IN /\ \A i, j \in DOMAIN q.ops :
                  i < j => OpRank(q.ops[i]) < OpRank(q.ops[j])
           /\ (\E op \in WorktreeOps : Has(q.ops, op)) => ArchiveFinished(q)
           /\ (\E op \in PlanOps : Has(q.ops, op)) =>
                  ArchiveFinished(q) /\ WorktreeFinished(q)
           /\ q.pc \in {"worktree", "prune", "branch"} => ArchiveFinished(q)
           /\ q.pc \in {"planDir", "planFile", "planCommit"} =>
                  ArchiveFinished(q) /\ WorktreeFinished(q)

\* all four steps have been started, the last is waiting for its commit
C14_Witness ==
    \E r \in Requests :
        /\ reqs[r].pc = "planCommit"
        /\ reqs[r].ops = <<"archive", "queue summary job", "worktree remove",
                           "branch delete", "plan rm dir", "plan rm file",
                           "plan commit">>

Last(seq) == seq[Len(seq)]
WorktreeFailed(q) == Has(q.result.errors, "Worktree deletion failed")
\* the block that ends here ran the tests of line 95 and 122
WorktreeTested(q, q2) ==
    /\ q.pc \in {"idle", "archive"}
    /\ q2.pc \in {"worktree", "planDir", "planFile", "planCommit", "done"}
    /\ q2.result.streamId # Null

C15_Step(r) ==
    LET q == reqs[r]
        q2 == reqs'[r]
        path == RetireWorktreePath(q2.stream)
    IN q2.kind # "bulk" /\ Enabled(q2, "deleteWorktree") =>
          /\ WorktreeTested(q, q2) =>
                 IF path \in disk
                 THEN /\ q2.pc = "worktree" /\ Last(q2.ops) = "worktree remove"
                      /\ ~q2.result.worktreeDeleted
                 ELSE /\ q2.pc # "worktree" /\ ~Has(q2.ops, "worktree remove")
                      /\ q2.result.worktreeDeleted /\ ~WorktreeFailed(q2)
          /\ q.pc = "worktree" =>
                 \/ /\ q2.pc = "branch" /\ ~Has(q2.ops, "rm directory")
                    /\ q2.result.worktreeDeleted /\ ~WorktreeFailed(q2)
                 \/ /\ Has(q2.ops, "rm directory")
                    /\ \/ /\ q2.pc = "prune" /\ Last(q2.ops) = "worktree prune"
                          /\ path \notin disk' /\ ~WorktreeFailed(q2)
                       \/ /\ ~Has(q2.ops, "worktree prune")
                          /\ WorktreeFailed(q2) /\ ~q2.result.worktreeDeleted
          /\ q.pc = "prune" =>
                 \/ /\ q2.pc = "branch"
                    /\ q2.result.worktreeDeleted /\ ~WorktreeFailed(q2)
                 \/ /\ q2.pc # "branch"
                    /\ WorktreeFailed(q2) /\ ~q2.result.worktreeDeleted
          /\ q.pc \in {"branch", "planDir", "planFile", "planCommit"} =>
                 /\ q2.result.worktreeDeleted = q.result.worktreeDeleted
                 /\ WorktreeFailed(q2) = WorktreeFailed(q)

\* C15: in the worktree step with deletion enabled, a path that does not
\* exist gives worktreeDeleted=true with no removal attempted and no error;
\* a path that exists has `git worktree remove` attempted; when that fails
\* the directory is removed by force and `git worktree prune` is attempted;
\* worktreeDeleted is true and no worktree error is recorded when the removal
\* or the fallback succeeds, and nothing later in retireStream changes that.
C15_WorktreeStep == [][\A r \in Requests : C15_Step(r)]_vars

\* the removal failed, the fallback succeeded
C15_Witness ==
    \E r \in Requests :
        /\ RetireReturned(r) /\ reqs[r].kind # "bulk"
        /\ Has(reqs[r].ops, "worktree remove") /\ Has(reqs[r].ops, "rm directory")
        /\ Has(reqs[r].ops, "worktree prune")
        /\ reqs[r].result.worktreeDeleted /\ ~WorktreeFailed(reqs[r])

C16_Step(r) ==
    LET q == reqs[r]
        q2 == reqs'[r]
        id == q.stream.id
    IN q.pc = "branch" /\ q.kind # "bulk" /\ gitMerged' = gitMerged =>
          /\ q2.result.errors = q.result.errors
          /\ q2.result.worktreeDeleted /\ q.result.worktreeDeleted
          /\ q2.pc = "done" => (q2.result.success <=> q.result.errors = <<>>)
          /\ IF ~Enabled(q, "cleanupPlanFiles")
             THEN q2.pc = "done" /\ ~q2.result.planFilesCleanedUp
             ELSE IF PlanDir(id) \in disk
             THEN q2.pc = "planDir" /\ Last(q2.ops) = "plan rm dir"
             ELSE IF PlanFile(id) \in disk
             THEN q2.pc = "planFile" /\ Last(q2.ops) = "plan rm file"
             ELSE q2.pc = "done" /\ q2.result.planFilesCleanedUp

\* C16: when `git branch -d` fails during retireStream (the branch is still
\* there afterwards), errors is unchanged, worktreeDeleted stays true,
\* success is still derived from the errors of the other steps alone, and
\* the plan-file step goes on as its option and the files on disk say.
C16_BranchFailureSwallowed == [][\A r \in Requests : C16_Step(r)]_vars

\* the branch was not deleted, and the retirement succeeded with its plan
\* files cleaned up
C16_Witness ==
    \E r \in Requests :
        /\ RetireReturned(r) /\ reqs[r].kind # "bulk"
        /\ Has(reqs[r].ops, "branch delete") /\ reqs[r].stream.branch \in gitMerged
        /\ reqs[r].result.success /\ reqs[r].result.worktreeDeleted
        /\ Has(reqs[r].ops, "plan commit") /\ reqs[r].result.planFilesCleanedUp

C17_Step(r) ==
    LET q == reqs[r]
        q2 == reqs'[r]
    IN /\ q2.result.summaryJobQueued =>
              /\ q2.result.archiveWritten /\ q2.archivePath = ArchivePath(q2.stream.id)
              /\ Enabled(q2, "queueIntelligentSummary") /\ q2.options.db # Undefined
       /\ q2 # q =>
              \/ jobs' = jobs
              \/ /\ q.pc = "archive"
                 /\ q.archivePath = NoPath /\ ~q.result.summaryJobQueued
                 /\ ArchivePath(q.stream.id) \in disk'
                 /\ Enabled(q, "queueIntelligentSummary") /\ q.options.db # Undefined
                 /\ jobs' = Append(jobs,
                        [streamId |-> q.stream.id, branch |-> q.stream.branch,
                         worktreePath |-> q.stream.worktreePath,
                         completedAt |-> q.stream.completedAt,
                         userSummary |-> q.summary,
                         historyFilePath |-> ArchivePath(q.stream.id),
                         status |-> "pending"])
       /\ q2.kind \in {"call", "single"} /\ q2.result.streamId # Null =>
              Len(jobs') = IF q2.result.summaryJobQueued THEN 1 ELSE 0

\* C17: retireStream inserts a summary job only when queueing is enabled, a
\* storage handle was given and the archive step returned a path: a result
\* with summaryJobQueued has archiveWritten; a step of retireStream inserts
\* at most one job, only as the archive step completes and once per
\* execution; the job holds the archive path, the fields of the stream as
\* they were passed in and the user summary.
C17_SummaryJob == [][\A r \in Requests : C17_Step(r)]_vars

\* a job was queued for the archive of s1
C17_Witness ==
    \E r \in Requests :
        /\ RetireReturned(r) /\ reqs[r].kind = "call"
        /\ reqs[r].result.summaryJobQueued /\ reqs[r].result.archiveWritten
        /\ jobs = <<[streamId |-> "s1", branch |-> "s1",
                     worktreePath |-> join(WorktreeRoot, "s1"), completedAt |-> "set",
                     userSummary |-> "done", historyFilePath |-> ArchivePath("s1"),
                     status |-> "pending"]>>

----------------------------------------------------------------------------
(* Claims about the retirement routes *)

InFlight(q) ==
    q.pc \in {"archive", "worktree", "prune", "branch", "planDir", "planFile",
              "planCommit"}
\* nothing of stream id is left in the tables after the step
RemovedAfter(id) ==
    /\ id \notin DOMAIN streams'
    /\ \A i \in DOMAIN commits' : commits'[i].streamId # id
    /\ \A i \in DOMAIN history' : history'[i].streamId # id

C18_Step(r) ==
    LET q == reqs[r]
        q2 == reqs'[r]
    IN /\ q.kind = "single" /\ InFlight(q) /\ q2.pc = "done" =>
              /\ RemovedAfter(q.stream.id)
              /\ q2.response.status = 200
              /\ q2.response.body.deleted = "true"
              /\ q2.response.body.success = q2.result.success
              /\ q2.response.body.retirement.errors = q2.result.errors
       /\ q.kind = "bulk" /\ InFlight(q) /\ Len(q2.results) > Len(q.results) =>
              /\ RemovedAfter(q.stream.id)
              /\ LET entry == q2.results[Len(q.results) + 1]
                 IN /\ entry.streamId = q.stream.id
                    /\ entry.deleted = "true"
                    /\ entry.success <=> entry.error = <<>>
                    /\ \A k \in DOMAIN entry.error : Has(StepErrors, entry.error[k])

\* C18: when POST /:id/archive, or POST /archive-bulk for an accepted item,
\* has run retireStream and goes on, the row of the stream, its commits and
\* its history are gone from the tables, whatever retireStream reported, and
\* the answer carries deleted=true, the success flag and the step errors.
C18_RecordRemoved == [][\A r \in Requests : C18_Step(r)]_vars

StorageUnchanged ==
    UNCHANGED <<streams, history, commits, jobs, disk, gitWorktrees, gitMerged>>
StatusError == <<"Cannot retire: status must be completed">>

\* what an entry that POST /archive-bulk wrote without running retireStream
\* must be, given the row it found; archivedIsNoOp tells how an archived
\* stream is to be answered
RejectedEntry(entry, row, archivedIsNoOp) ==
    \/ entry.success = FALSE /\ entry.error = <<"exception">>
    \/ /\ entry.deleted = Undefined
       /\ IF row = NoStream
          THEN entry.success = FALSE /\ entry.error = <<"Not found">>
          ELSE IF row.status = "archived" /\ archivedIsNoOp
          THEN entry.success = TRUE /\ entry.error = <<"Already retired">>
          ELSE /\ row.status # "completed"
               /\ entry.success = FALSE /\ entry.error = StatusError

C19_Step(r, archivedIsNoOp) ==
    LET q == reqs[r]
        q2 == reqs'[r]
        finished == IF InFlight(q) THEN 1 ELSE 0
    IN /\ q.pc = "idle" /\ q2 # q => StorageUnchanged
       /\ q.pc = "idle" /\ q2.kind = "single" /\ q2.response.status # 500 =>
              LET row == getStream(streams, q2.ids[1])
              IN IF row # NoStream /\ row.status = "completed"
                 THEN InFlight(q2) /\ q2.stream = row
                 ELSE /\ q2.pc = "done" /\ q2.ops = <<>>
                      /\ q2.result.streamId = Null
                      /\ q2.response.status = IF row = NoStream THEN 404 ELSE 400
       /\ q2.kind = "bulk" /\ q2 # q =>
              /\ \A k \in (Len(q.results) + finished + 1) .. Len(q2.results) :
                     /\ q2.results[k].streamId = q2.ids[k]
                     /\ RejectedEntry(q2.results[k], getStream(streams', q2.ids[k]),
                                      archivedIsNoOp)
              /\ InFlight(q2) /\ (InFlight(q) => Len(q2.results) > Len(q.results)) =>
                     /\ q2.stream.status = "completed"
                     /\ q2.stream = getStream(streams', q2.ids[Len(q2.results) + 1])
       /\ q2 # q /\ streams' # streams =>
              /\ InFlight(q) /\ q.kind \in {"single", "bulk"}
              /\ q.stream.id \in DOMAIN streams
              /\ streams[q.stream.id].status = "completed"
              /\ streams' = [id \in (DOMAIN streams) \ {q.stream.id} |-> streams[id]]

\* C19 as stated: the two routes start retireStream, and delete a row, only
\* for a stream that is persisted as completed; an unknown id is answered
\* not-found and every other status a status error, and a rejection runs no
\* retirement step and changes nothing in storage.
C19_OnlyCompletedRetire == [][\A r \in Requests : C19_Step(r, FALSE)]_vars

\* C19 amended: the same, except that POST /archive-bulk answers an archived
\* stream with a successful no-op ("Already retired") and not with a status
\* error; it still runs no retirement step on it and changes nothing.
C19_OnlyCompletedRetire_Amended == [][\A r \in Requests : C19_Step(r, TRUE)]_vars

\* a bulk request has retired the completed s1 and has answered the archived
\* s2 without touching it
C19_Witness ==
    \E r \in Requests :
        /\ reqs[r].kind = "bulk" /\ reqs[r].pc = "done" /\ Len(reqs[r].results) = 2
        /\ \E k \in 1..2 : /\ reqs[r].results[k].streamId = "s1"
                           /\ reqs[r].results[k].deleted = "true"
        /\ \E k \in 1..2 : /\ reqs[r].results[k].streamId = "s2"
                           /\ reqs[r].results[k].error = <<"Already retired">>
        /\ "s1" \notin DOMAIN streams
        /\ "s2" \in DOMAIN streams /\ streams["s2"].status = "archived"

\* the entry of an item for which retireStream ran
RetiredEntry(entry) ==
    /\ entry.deleted = "true"
    /\ entry.success <=> entry.error = <<>>
    /\ \A k \in DOMAIN entry.error : Has(StepErrors, entry.error[k])
ExceptionEntry(entry) ==
    entry.success = FALSE /\ entry.deleted = Undefined /\ entry.error = <<"exception">>

C20_Step(r) ==
    LET q == reqs[r]
        q2 == reqs'[r]
        n == IF q.kind = "bulk" THEN Len(q.results) ELSE 0
        waiting == InFlight(q) /\ Len(q2.results) = n
        finished == IF InFlight(q) THEN 1 ELSE 0
    IN q2.kind = "bulk" /\ q2 # q /\ q2.ids # <<>> =>
          /\ Len(q2.results) <= Len(q2.ids)
          /\ \A k \in DOMAIN q2.results : q2.results[k].streamId = q2.ids[k]
          /\ \A k \in 1..n : q2.results[k] = q.results[k]
          /\ waiting => InFlight(q2) /\ q2.stream = q.stream
          /\ InFlight(q) /\ ~waiting =>
                 \/ RetiredEntry(q2.results[n + 1]) /\ RemovedAfter(q.stream.id)
                 \/ ExceptionEntry(q2.results[n + 1])
          /\ \A k \in (n + finished + 1) .. Len(q2.results) :
                 RejectedEntry(q2.results[k], getStream(streams', q2.ids[k]), TRUE)
          /\ ~waiting =>
                 IF Len(q2.results) < Len(q2.ids)
                 THEN /\ InFlight(q2)
                      /\ q2.stream = getStream(streams', q2.ids[Len(q2.results) + 1])
                      /\ q2.stream.status = "completed"
                 ELSE /\ q2.pc = "done"
                      /\ q2.response.status = 200
                      /\ q2.response.body.results = q2.results
                      /\ q2.response.body.success <=>
                             \A k \in DOMAIN q2.results : q2.results[k].success
                      /\ RetiredEntry(Last(q2.results)) =>
                             /\ Last(q2.results).error = q2.result.errors
                             /\ Last(q2.results).success = q2.result.success

\* C20: POST /archive-bulk with a list of ids answers with one entry per id
\* in the order of the list, whatever happens to an item: the entry of a
\* completed stream is that of its retirement (deleted, success exactly when
\* its own steps left no error) and the stream is gone from storage; an
\* archived stream gets a successful entry and is left alone; another status
\* gets a status error and an unknown id a not-found error; an exception
\* gives a failed entry for its id and the loop goes on with the next id; the
\* top-level success is true exactly when every entry succeeded.
C20_BulkPerItem == [][\A r \in Requests : C20_Step(r)]_vars

\* the first id met an exception, the second was retired
C20_Witness ==
    \E r \in Requests :
        /\ reqs[r].kind = "bulk" /\ reqs[r].pc = "done"
        /\ Len(reqs[r].results) = 2
        /\ ExceptionEntry(reqs[r].results[1])
        /\ RetiredEntry(reqs[r].results[2])
        /\ reqs[r].response.status = 200 /\ ~reqs[r].response.body.success

\* request q runs retireStream and has come to its worktree step (line 95)
ReachedWorktreeStep(q) ==
    q.result.streamId # Null /\ q.pc \notin {"idle", "archive"}

\* C21: of two retirement requests for the same stream id, however they
\* interleave, at most one comes to the worktree step of retireStream; the
\* other one is answered not-found without running retireStream.
C21_OneRetirementPerStream ==
    \A a, b \in Requests :
        a # b /\ reqs[a].ids = reqs[b].ids =>
            /\ ~(ReachedWorktreeStep(reqs[a]) /\ ReachedWorktreeStep(reqs[b]))
            /\ ReachedWorktreeStep(reqs[a]) /\ reqs[b].pc = "done" =>
                   reqs[b].result.streamId = Null

----------------------------------------------------------------------------
(* Commit scanner (scanners/git-commits.ts): the parser of the git log     *)

\* the longest log the parser is given
MaxLogLines == 3
CommitHashes == {"h1", "h2"}

\* One line of `git log --pretty=format:"%H|%an|%aI|%s|" --numstat`:
\*   header     the formatted line of a commit, five fields around four `|`
\*   stat       "3\t1\tpath"                     binary   "-\t-\tpath"
\*   statPipe   a stat line of a path with one `|` in its name ("1\t0\ta|b")
\*   statPipes  a stat line of a path with three `|` in its name
\*   other      an empty line
LineKinds == {"header", "stat", "binary", "statPipe", "statPipes", "other"}
Line(kind, hash) == [kind |-> kind, hash |-> hash]
LogLines ==
    {Line("header", h) : h \in CommitHashes}
        \cup {Line(k, Null) : k \in LineKinds \ {"header"}}
\* line.includes('|')
IncludesPipe(line) == line.kind \in {"header", "statPipe", "statPipes"}
\* line.split('|').length
Parts(line) ==
    CASE line.kind = "header" -> 5
      [] line.kind = "statPipe" -> 2
      [] line.kind = "statPipes" -> 4
      [] OTHER -> 1
\* line.match(/^\d+\s+\d+\s+/) || line.match(/^-\s+-\s+/)
MatchesNumstat(line) == line.kind \in {"stat", "binary", "statPipe", "statPipes"}
\* new Date(parts[2]).toISOString() throws a RangeError unless the third
\* field is a date, which it is in the lines git formats
DateParses(line) == line.kind = "header"

\* the loop variables of lines 89-92; currentCommit is one object, and
\* aliases are the places of the array commits that hold it
NoCommit == [streamId |-> Null, commitHash |-> Null, filesChanged |-> 0]
ParserStart ==
    [commits |-> <<>>, hasCurrent |-> FALSE, currentCommit |-> NoCommit,
     aliases |-> {}, filesChanged |-> 0, thrown |-> FALSE]
\* lines 96-99 and 118-121: currentCommit.filesChanged = filesChanged;
\* commits.push(currentCommit)
PushCurrent(st) ==
    IF ~st.hasCurrent THEN st
    ELSE LET c == [st.currentCommit EXCEPT !.filesChanged = st.filesChanged]
             at == st.aliases \cup {Len(st.commits) + 1}
         IN [st EXCEPT !.currentCommit = c,
                       !.aliases = at,
                       !.commits = [i \in 1..(Len(st.commits) + 1) |->
                                       IF i \in at THEN c ELSE st.commits[i]]]
\* the body of the loop over the lines
ParseLine(st, line, streamId) ==
    IF st.thrown THEN st
    ELSE IF IncludesPipe(line)
    THEN LET pushed == PushCurrent(st)
         IN IF Parts(line) >= 4
            THEN IF DateParses(line)
                 THEN [pushed EXCEPT
                          !.hasCurrent = TRUE,
                          !.currentCommit = [streamId |-> streamId,
                                             commitHash |-> line.hash,
                                             filesChanged |-> 0],
                          !.aliases = {},
                          !.filesChanged = 0]
                 ELSE [pushed EXCEPT !.thrown = TRUE]
            ELSE pushed
    ELSE IF MatchesNumstat(line)
    THEN [st EXCEPT !.filesChanged = @ + 1]
    ELSE st
RECURSIVE ParseLines(_, _, _)
ParseLines(st, lines, streamId) ==
    IF lines = <<>> THEN st
    ELSE ParseLines(ParseLine(st, Head(lines), streamId), Tail(lines), streamId)
\* lines 89-126: the commits parsed from the output, [] when anything threw
ParseLog(lines, streamId) ==
    LET st == ParseLines(ParserStart, lines, streamId)
    IN IF st.thrown THEN <<>> ELSE PushCurrent(st).commits

getWorktreeCommits(stream, fs, log) ==
    IF stream.worktreePath \notin fs THEN <<>>
    ELSE ParseLog(log[stream.id], stream.id)
getMainBranchCommits(log) == ParseLog(log["main"], "main")

----------------------------------------------------------------------------
(* The parser applied to every short log                                   *)

\* git prints a commit once: no two header lines of a log have the same hash
HeaderHashes(lines) ==
    {lines[i].hash : i \in {j \in DOMAIN lines : lines[j].kind = "header"}}
Headers(lines) == SelectSeq(lines, LAMBDA l : l.kind = "header")
Logs ==
    {lines \in UNION {[1..n -> LogLines] : n \in 0..MaxLogLines} :
        Cardinality(HeaderHashes(lines)) = Len(Headers(lines))}

\* stream s1 with or without its worktree directory; one log, of s1 or of main
InitParse ==
    /\ \E log \in Logs, of \in {"s1", "main"}, fs \in SUBSET {join(WorktreeRoot, "s1")} :
           /\ gitLog = [id \in StreamIds \cup {"main"} |->
                           IF id = of THEN log ELSE <<>>]
           /\ disk = fs
    /\ streams = [id \in {"s1"} |-> RetirableRow(id, "active")]
    /\ history = <<>>
    /\ commits = <<>>
    /\ jobs = <<>>
    /\ reqs = [r \in Requests |-> IdleRequest]
    /\ gitWorktrees = <<[path |-> ProjectRoot, branch |-> "main"]>>
    /\ gitMerged = {"main"}
    /\ call = Idle
    /\ result = EmptyResult
    /\ parsed = NoParse
    /\ scan = NoScan
    /\ clients = {}
    /\ outbox = <<>>
    /\ TimersIdle
    /\ LockIdle
    /\ ClientsIdle

GetWorktreeCommits(id) ==
    /\ id \in DOMAIN streams
    /\ parsed' = [of |-> id,
                  commits |-> getWorktreeCommits(streams[id], disk, gitLog)]
    /\ UNCHANGED <<streams, history, gitWorktrees, gitMerged, disk, call, result,
                   retirementVars, gitLog, scan, clients, outbox, timerVars,
                   lockVars, clientVars>>

GetMainBranchCommits ==
    /\ parsed' = [of |-> "main", commits |-> getMainBranchCommits(gitLog)]
    /\ UNCHANGED <<streams, history, gitWorktrees, gitMerged, disk, call, result,
                   retirementVars, gitLog, scan, clients, outbox, timerVars,
                   lockVars, clientVars>>

NextParse ==
    \/ \E id \in StreamIds : GetWorktreeCommits(id)
    \/ GetMainBranchCommits

SpecParse == InitParse /\ [][NextParse]_vars

\* the record of every header line, in the order of the lines, each with the
\* number of numstat and binary lines that follow it before the next header
RECURSIVE StatLinesAfter(_, _)
StatLinesAfter(lines, i) ==
    IF i > Len(lines) \/ lines[i].kind = "header" THEN 0
    ELSE (IF MatchesNumstat(lines[i]) THEN 1 ELSE 0) + StatLinesAfter(lines, i + 1)
RECURSIVE RecordsOfHeaders(_, _, _)
RecordsOfHeaders(lines, i, streamId) ==
    IF i > Len(lines) THEN <<>>
    ELSE (IF lines[i].kind = "header"
          THEN <<[streamId |-> streamId, commitHash |-> lines[i].hash,
                  filesChanged |-> StatLinesAfter(lines, i + 1)]>>
          ELSE <<>>) \o RecordsOfHeaders(lines, i + 1, streamId)
\* the log of parsed.of was read (the worktree of a stream has to exist)
LogRead ==
    /\ parsed.of # Null
    /\ parsed.of # "main" => streams[parsed.of].worktreePath \in disk

\* C23: the parser returns exactly one record per commit header, in the
\* order of the headers, no hash twice, each with the number of numstat and
\* binary lines between its header and the next, whatever header, stat and
\* other lines the log is made of (stat lines with `|` in them included).
C23_OneRecordPerHeader ==
    LogRead =>
        /\ parsed.commits = RecordsOfHeaders(gitLog[parsed.of], 1, parsed.of)
        /\ \A i, j \in DOMAIN parsed.commits :
               parsed.commits[i].commitHash = parsed.commits[j].commitHash => i = j

----------------------------------------------------------------------------
(* Commit scanner: the scan of every worktree into the table commits       *)

\* the tables a statement works on
Database(streamsTable, commitsTable) ==
    [streams |-> streamsTable, commits |-> commitsTable]
NoError == "none"
\* the INSERT of insertCommit under the schema of commits: UNIQUE
\* (stream_id, commit_hash) and FOREIGN KEY (stream_id) REFERENCES streams
InsertCommitError_NoUnique(db, commit) ==
    IF commit.streamId \notin DOMAIN db.streams
    THEN "FOREIGN KEY constraint failed"
    ELSE NoError
InsertCommitError(db, commit) ==
    IF \E i \in DOMAIN db.commits :
           /\ db.commits[i].streamId = commit.streamId
           /\ db.commits[i].commitHash = commit.commitHash
    THEN "UNIQUE constraint failed"
    ELSE IF commit.streamId \notin DOMAIN db.streams
    THEN "FOREIGN KEY constraint failed"
    ELSE NoError
insertCommit(db, commit) ==
    IF InsertCommitError(db, commit) # NoError THEN db
    ELSE [db EXCEPT !.commits = Append(@, commit)]
\* error.message.includes('UNIQUE')
IncludesUnique(message) == message = "UNIQUE constraint failed"

\* the row scanAllWorktreeCommits inserts for the main branch
MainRow ==
    [id |-> "main", status |-> "active", completedAt |-> Null,
     worktreePath |-> ProjectRoot, branch |-> "main", blockedBy |-> Null,
     progress |-> 100]
EnsureMain(db) ==
    IF "main" \in DOMAIN db.streams THEN db
    ELSE [db EXCEPT !.streams = [id \in (DOMAIN @) \cup {"main"} |->
                                    IF id = "main" THEN MainRow ELSE @[id]]]

\* lines 218-227 and 238-248: insert every commit, count the inserted ones,
\* count the rejected ones as errors unless the message includes UNIQUE
RECURSIVE InsertCommits(_, _)
InsertCommits(acc, list) ==
    IF list = <<>> THEN acc
    ELSE LET error == InsertCommitError(acc.db, Head(list))
             next == IF error = NoError
                     THEN [acc EXCEPT !.db = insertCommit(@, Head(list)),
                                      !.commitsAdded = @ + 1]
                     ELSE IF ~IncludesUnique(error)
                     THEN [acc EXCEPT !.errors = @ + 1]
                     ELSE acc
         IN InsertCommits(next, Tail(list))
\* lines 233-263: the loop over the rows getAllStreams returned (the last
\* file change of a worktree is a timestamp, which is not kept)
RECURSIVE ScanStreams(_, _, _, _)
ScanStreams(acc, rows, fs, log) ==
    IF rows = <<>> THEN acc
    ELSE ScanStreams(InsertCommits([acc EXCEPT !.scanned = @ + 1],
                                   getWorktreeCommits(Head(rows), fs, log)),
                     Tail(rows), fs, log)
\* scanAllWorktreeCommits, rows being what getAllStreams returned
scanAllWorktreeCommits(db, rows, fs, log) ==
    LET start == [db |-> EnsureMain(db), scanned |-> 0, commitsAdded |-> 0,
                  errors |-> 0]
        main == InsertCommits(start, getMainBranchCommits(log))
    IN ScanStreams(main, rows, fs, log)
\* what the call returned, or that it threw
ScanCounts(acc) ==
    [scanned |-> acc.scanned, commitsAdded |-> acc.commitsAdded,
     errors |-> acc.errors, outcome |-> "returned"]
ScanThrew == [NoScan EXCEPT !.outcome = "thrown"]

----------------------------------------------------------------------------
(* Push notifications (api/events.ts)                                      *)

SseClients == {"client-1", "client-2"}
\* one event written to the responses of the listeners in `to`
SseEvent(event, to) == [event |-> event, to |-> to]
\* EventManager.broadcast: sendToClient for every client; a client whose
\* response throws on write is deleted; net is [clients, outbox]
Network(cl, out) == [clients |-> cl, outbox |-> out]
\* broadcast that leaves a client whose write failed in the map
broadcast_KeepFailed(net, event, broken) ==
    [clients |-> net.clients,
     outbox |-> Append(net.outbox, SseEvent(event, net.clients \ broken)),
     sent |-> Cardinality(net.clients \ broken)]
\* sent is the value returned: the number of writes that did not throw
broadcast(net, event, broken) ==
    [clients |-> net.clients \ broken,
     outbox |-> Append(net.outbox, SseEvent(event, net.clients \ broken)),
     sent |-> Cardinality(net.clients \ broken)]
\* notifyUpdate drops what broadcast returns
notifyUpdate(net, type, broken) ==
    LET out == broadcast(net, type, broken)
    IN Network(out.clients, out.outbox)

----------------------------------------------------------------------------
(* The server process: the periodic scan, its timer and the listeners      *)

\* the most timers one process creates
MaxTimers == 3

\* what the scanner and the listeners leave alone
reconciliationVars == <<history, gitWorktrees, gitMerged, call, result, jobs, reqs>>

\* the log of a branch as commits are made on it: the newest commit first
ScanLogs ==
    <<<<>>,
      <<Line("header", "h1"), Line("other", Null), Line("stat", Null)>>,
      <<Line("header", "h2"), Line("other", Null), Line("statPipe", Null),
        Line("binary", Null),
        Line("header", "h1"), Line("other", Null), Line("stat", Null)>>>>
LogAge(log) == CHOOSE i \in DOMAIN ScanLogs : ScanLogs[i] = log

\* a commit is made on the branch of a stream or on main
GitCommitMade(id) ==
    /\ LogAge(gitLog[id]) < Len(ScanLogs)
    /\ gitLog' = [gitLog EXCEPT ![id] = ScanLogs[LogAge(@) + 1]]
    /\ UNCHANGED <<streams, disk, commits, parsed, scan, clients, outbox,
                   timerVars, lockVars, clientVars, reconciliationVars>>

\* GET /api/events: EventManager.addClient registers the listener under a
\* new id, writes the `connected` event to it and starts its heartbeat
\* interval; an id is new when no listener and no interval has it
AddClient(id) ==
    /\ id \notin clients \cup heartbeats
    /\ outbox = <<>>
    /\ clients' = clients \cup {id}
    /\ outbox' = Append(outbox, SseEvent("connected", {id}))
    /\ heartbeats' = heartbeats \cup {id}
    /\ UNCHANGED <<streams, disk, commits, scannerVars, timerVars, lockVars, sdk,
                   syncResult, sent, reconciliationVars>>

\* res.on('close'): the interval is cleared and the listener is deleted
ClientClosed(id) ==
    /\ id \in clients \cup heartbeats
    /\ clients' = clients \ {id}
    /\ heartbeats' = heartbeats \ {id}
    /\ UNCHANGED <<streams, disk, commits, scannerVars, outbox, timerVars,
                   lockVars, sdk, syncResult, sent, reconciliationVars>>

\* the listeners read what was written to them
EventsRead ==
    /\ outbox # <<>>
    /\ outbox' = <<>>
    /\ UNCHANGED <<streams, disk, commits, scannerVars, clients, timerVars,
                   lockVars, clientVars, reconciliationVars>>

\* startPeriodicScanning: clear the timer there is, create a new one
StartPeriodicScanning_KeepTimer ==
    /\ nextTimer <= MaxTimers
    /\ timers' = timers \cup {nextTimer}
    /\ scanningInterval' = nextTimer
    /\ nextTimer' = nextTimer + 1
    /\ UNCHANGED <<streams, disk, commits, scannerVars, clients, outbox,
                   lockVars, clientVars, reconciliationVars>>
StartPeriodicScanning ==
    /\ nextTimer <= MaxTimers
    /\ timers' = (IF scanningInterval # NoTimer
                  THEN timers \ {scanningInterval} ELSE timers) \cup {nextTimer}
    /\ scanningInterval' = nextTimer
    /\ nextTimer' = nextTimer + 1
    /\ UNCHANGED <<streams, disk, commits, scannerVars, clients, outbox,
                   lockVars, clientVars, reconciliationVars>>

\* stopPeriodicScanning: clear the timer, if there is one
StopPeriodicScanning ==
    /\ IF scanningInterval # NoTimer
       THEN /\ timers' = timers \ {scanningInterval}
            /\ scanningInterval' = NoTimer
       ELSE UNCHANGED <<timers, scanningInterval>>
    /\ UNCHANGED <<streams, disk, commits, scannerVars, clients, outbox,
                   nextTimer, lockVars, clientVars, reconciliationVars>>

\* what the callback of the timer broadcasts after a scan that returned acc
ScanNotifications_Always(net, acc, broken) ==
    notifyUpdate(notifyUpdate(net, "commits", broken), "stats", broken)
ScanNotifications(net, acc, broken) ==
    IF acc.commitsAdded > 0
    THEN notifyUpdate(notifyUpdate(net, "commits", broken), "stats", broken)
    ELSE net

\* timer t fires and its callback runs: scan in the row order rows; throws
\* when getAllStreams throws, which the callback catches; the responses of
\* the listeners in broken throw on write
PeriodicScan(t, rows, throws, broken) ==
    /\ t \in timers
    /\ outbox = <<>>
    /\ IF throws
       THEN /\ scan' = ScanThrew
            /\ UNCHANGED <<streams, commits, clients, outbox>>
       ELSE LET acc == scanAllWorktreeCommits(Database(streams, commits), rows,
                                              disk, gitLog)
                net == ScanNotifications(Network(clients, outbox), acc, broken)
            IN /\ streams' = acc.db.streams
               /\ commits' = acc.db.commits
               /\ scan' = ScanCounts(acc)
               /\ clients' = net.clients
               /\ outbox' = net.outbox
    /\ UNCHANGED <<disk, gitLog, parsed, timerVars, lockVars, clientVars, reconciliationVars>>

\* two streams; the worktree of s2 may be missing; the branch of s2 has one
\* commit, which is also the first one of the branch of s1
InitScan ==
    /\ streams = [id \in StreamIds |-> RetirableRow(id, "active")]
    /\ \E fs \in SUBSET {join(WorktreeRoot, "s2")} :
           disk = fs \cup {join(WorktreeRoot, "s1")}
    /\ gitLog = [id \in StreamIds \cup {"main"} |->
                    IF id = "s2" THEN ScanLogs[2] ELSE <<>>]
    /\ history = <<>>
    /\ commits = <<>>
    /\ jobs = <<>>
    /\ reqs = [r \in Requests |-> IdleRequest]
    /\ gitWorktrees = <<[path |-> ProjectRoot, branch |-> "main"]>>
    /\ gitMerged = {"main"}
    /\ call = Idle
    /\ result = EmptyResult
    /\ parsed = NoParse
    /\ scan = NoScan
    /\ clients = {}
    /\ outbox = <<>>
    /\ TimersIdle
    /\ LockIdle
    /\ ClientsIdle

NextScan ==
    \/ \E id \in {"s1", "main"} : GitCommitMade(id)
    \/ \E id \in SseClients : AddClient(id)
    \/ \E id \in SseClients : ClientClosed(id)
    \/ EventsRead
    \/ StartPeriodicScanning
    \/ StopPeriodicScanning
    \/ \E t \in timers, rows \in getAllStreams(streams), throws \in BOOLEAN,
          broken \in SUBSET clients :
           PeriodicScan(t, rows, throws, broken)

SpecScan == InitScan /\ [][NextScan]_vars

----------------------------------------------------------------------------
(* Claims about the commit scanner and the periodic scan                   *)

SameKey(c, d) == c.streamId = d.streamId /\ c.commitHash = d.commitHash
\* the commits the logs hold now, as a scan would parse them
Range2(seq) == {seq[i] : i \in DOMAIN seq}
LogCommits ==
    Range2(getMainBranchCommits(gitLog))
        \cup UNION {Range2(getWorktreeCommits(streams[id], disk, gitLog)) :
                       id \in (DOMAIN streams) \ {"main"}}
\* every commit of the history is in the table: the history was scanned and
\* has not changed since
HistoryScanned == \A c \in LogCommits : \E i \in DOMAIN commits : SameKey(commits[i], c)
UniqueCommitKeys ==
    \A i, j \in DOMAIN commits : SameKey(commits[i], commits[j]) => i = j
\* a scan has returned in this step
ScanReturned ==
    /\ scan' # scan \/ commits' # commits \/ streams' # streams
    /\ scan'.outcome = "returned"
C22_Step ==
    ScanReturned /\ HistoryScanned =>
        /\ commits' = commits
        /\ scan'.commitsAdded = 0
        /\ scan'.errors = 0

\* C22: the table never holds two commits with the same (streamId,
\* commitHash), and a scan of a history that was already scanned and has not
\* changed adds no row, reports commitsAdded = 0 and counts none of the
\* rejected duplicates as an error.
C22_ScanIdempotent == [](UniqueCommitKeys) /\ [][C22_Step]_vars

\* a scan has found nothing new although the table holds the commits of two
\* branches, one of them with a stat line that contains `|`
C22_Witness ==
    /\ scan.outcome = "returned"
    /\ scan.commitsAdded = 0
    /\ scan.scanned = 2
    /\ gitLog["s1"] = ScanLogs[3]
    /\ HistoryScanned
    /\ Len(commits) >= 3

\* the names of the events written in this step, in order
NewEvents ==
    [k \in 1..(Len(outbox') - Len(outbox)) |-> outbox'[Len(outbox) + k]]
\* a periodic scan has run in this step
ScanRan == scan' # scan \/ commits' # commits \/ streams' # streams
C24_Step ==
    /\ ScanRan /\ scan'.outcome = "returned" /\ scan'.commitsAdded > 0 =>
           /\ Len(outbox') = Len(outbox) + 2
           /\ NewEvents[1].event = "commits" /\ NewEvents[2].event = "stats"
           \* written to every listener that is still connected
           /\ NewEvents[2].to = clients'
           /\ clients' \subseteq NewEvents[1].to
           /\ NewEvents[1].to \subseteq clients
    /\ ScanRan /\ (scan'.outcome = "thrown" \/ scan'.commitsAdded = 0) =>
           outbox' = outbox /\ clients' = clients

\* C24: a periodic scan that adds at least one commit broadcasts `commits`
\* and then `stats` to the connected listeners; a scan that adds none, or
\* that fails, broadcasts nothing.
C24_ScanNotifies == [][C24_Step]_vars

\* a scan has added commits and both events went out to two listeners
C24_Witness ==
    /\ scan.outcome = "returned" /\ scan.commitsAdded > 0
    /\ Len(outbox) = 2
    /\ outbox[1] = SseEvent("commits", SseClients)
    /\ outbox[2] = SseEvent("stats", SseClients)

OneTimer ==
    /\ Cardinality(timers) <= 1
    /\ timers = IF scanningInterval = NoTimer THEN {} ELSE {scanningInterval}
C28_Step ==
    \* starting replaces the timer there was by a new one
    /\ nextTimer' # nextTimer =>
           timers' = {nextTimer} /\ nextTimer \notin timers
    \* stopping clears the timer
    /\ timers' # timers /\ nextTimer' = nextTimer =>
           timers' = {} /\ scanningInterval' = NoTimer
    \* stopping when no timer is set changes nothing
    /\ scanningInterval = NoTimer /\ StopPeriodicScanning => UNCHANGED vars
    \* no scan runs unless a timer is set
    /\ ScanRan => timers # {}

\* C28: there is at most one scan timer at any time; starting again replaces
\* the previous timer; once stopPeriodicScanning has run no scan is started
\* until the scanning is started again; stopping when nothing runs is a
\* no-op.
C28_SingleCancellableTimer == [](OneTimer) /\ [][C28_Step]_vars

\* the scanning was started twice and a scan of the second timer has run
C28_Witness ==
    /\ nextTimer = 3
    /\ timers = {2}
    /\ scanningInterval = 2
    /\ scan.outcome = "returned"

----------------------------------------------------------------------------
(* The routes that change a stream or add a commit                         *)
(* (PATCH /api/streams/:id, POST /api/commits), next to the retirement     *)

\* a stream id without a row
UnknownId == "s9"
EmptyString == ""
\* `x || null`
OrNull(x) == IF x \in {Undefined, Null, EmptyString} THEN Null ELSE x

\* a request body's progress: no field, or the number sent
NoProgress == <<>>
\* `if (x)` of a request body's string field
Truthy(x) == x \notin {Undefined, Null, EmptyString}

\* the UPDATE of updateStream with status, progress and blockedBy: the
\* statement fails on a blocked_by without a row (FOREIGN KEY (blocked_by)
\* REFERENCES streams(id))
UpdateStreamError_NoForeignKey(db, streamId, updates) == NoError
UpdateStreamError(db, streamId, updates) ==
    IF /\ updates.blockedBy # Undefined
       /\ OrNull(updates.blockedBy) # Null
       /\ OrNull(updates.blockedBy) \notin DOMAIN db
    THEN "FOREIGN KEY constraint failed"
    ELSE NoError
updateStreamColumns(db, streamId, updates) ==
    IF UpdateStreamError(db, streamId, updates) # NoError THEN db
    ELSE [db EXCEPT
             ![streamId].status =
                 IF updates.status # Undefined THEN updates.status ELSE @,
             ![streamId].progress =
                 IF updates.progress # NoProgress THEN updates.progress[1] ELSE @,
             ![streamId].blockedBy =
                 IF updates.blockedBy # Undefined THEN OrNull(updates.blockedBy) ELSE @]

PatchStatuses == {Undefined, EmptyString, "active", "completed", "bogus"}
\* progress as sent: none, a number in 0..100, a number out of it
PatchProgress == {NoProgress, <<50>>, <<150>>}
PatchBodies ==
    [status : PatchStatuses, progress : PatchProgress,
     blockedBy : {Undefined, EmptyString, "s1", UnknownId}]
Answered(kind, id, response) ==
    [IdleRequest EXCEPT !.pc = "done", !.kind = kind, !.ids = <<id>>,
                        !.response = response]

\* PATCH /api/streams/:id
StreamPatch(r, id, body) ==
    LET stream == getStream(streams, id)
        previousStatus == stream.status
        completes == body.status = "completed" /\ previousStatus # "completed"
        error == IF completes THEN NoError
                 ELSE UpdateStreamError(streams, id, body)
        updated == IF completes THEN completeStream(streams, id)
                   ELSE updateStreamColumns(streams, id, body)
        changed == Truthy(body.status) /\ body.status # previousStatus
    IN /\ Free(r)
       /\ IF stream = NoStream
          THEN /\ reqs' = [reqs EXCEPT ![r] =
                              Answered("patch", id, Response(404, "Stream not found"))]
               /\ UNCHANGED <<streams, history>>
          ELSE IF Truthy(body.status) /\ body.status \notin StreamStatus
          THEN /\ reqs' = [reqs EXCEPT ![r] =
                              Answered("patch", id, Response(400, "Invalid status"))]
               /\ UNCHANGED <<streams, history>>
          ELSE IF /\ body.progress # NoProgress
                  /\ (body.progress[1] < 0 \/ body.progress[1] > 100)
          THEN /\ reqs' = [reqs EXCEPT ![r] =
                              Answered("patch", id, Response(400, "Progress must be a number between 0 and 100"))]
               /\ UNCHANGED <<streams, history>>
          ELSE IF error # NoError
          THEN /\ reqs' = [reqs EXCEPT ![r] =
                              Answered("patch", id, Response(500, "Failed to update stream"))]
               /\ UNCHANGED <<streams, history>>
          ELSE /\ streams' = updated
               /\ history' = IF changed
                             THEN addHistoryEvent(history,
                                      HistoryEvent(id, "status_changed",
                                                   previousStatus, body.status))
                             ELSE history
               /\ reqs' = [reqs EXCEPT ![r] =
                              Answered("patch", id,
                                       Response(200, [success |-> "true",
                                                      stream |-> getStream(updated, id)]))]
       /\ UNCHANGED <<gitWorktrees, gitMerged, disk, call, result, commits, jobs,
                      serverVars>>

CommitBodies ==
    [streamId : {Undefined, "s1", "s2", UnknownId}, commitHash : {"c1", "c2"}]
\* POST /api/commits; the responses of the listeners in broken throw on write
CommitPost(r, body, broken) ==
    LET commit == [streamId |-> body.streamId, commitHash |-> body.commitHash,
                   filesChanged |-> 1]
        db == Database(streams, commits)
        net == notifyUpdate(Network(clients, outbox), "commits", broken)
        answer(response) ==
            reqs' = [reqs EXCEPT ![r] = Answered("commit", body.streamId, response)]
    IN /\ Free(r)
       /\ outbox = <<>>
       /\ IF body.streamId = Undefined
          THEN /\ answer(Response(400, "Missing required fields"))
               /\ UNCHANGED <<commits, clients, outbox>>
          ELSE IF getStream(streams, body.streamId) = NoStream
          THEN /\ answer(Response(404, "Stream not found"))
               /\ UNCHANGED <<commits, clients, outbox>>
          ELSE IF InsertCommitError(db, commit) # NoError
          THEN /\ answer(Response(500, "Failed to add commit"))
               /\ UNCHANGED <<commits, clients, outbox>>
          ELSE /\ commits' = insertCommit(db, commit).commits
               /\ clients' = net.clients
               /\ outbox' = net.outbox
               /\ answer(Response(201, "Commit added successfully"))
       /\ UNCHANGED <<streams, history, gitWorktrees, gitMerged, disk, call,
                      result, jobs, scannerVars, timerVars, lockVars, clientVars>>

\* s1 is completed, with its worktree and its planning files; s2 is active;
\* one commit and one history event of s1 are stored
InitApi ==
    /\ InitRetirement("active", "registered", {PlanDir("s1"), PlanFile("s1")})
    /\ reqs = [r \in Requests |-> IdleRequest]

NextApi ==
    \/ \E r \in Requests, id \in StreamIds \cup {UnknownId}, body \in PatchBodies :
           StreamPatch(r, id, body)
    \/ \E r \in Requests, body \in CommitBodies, broken \in SUBSET clients :
           CommitPost(r, body, broken)
    \/ \E r \in Requests : ArchiveRequest(r, "s1", DefaultBody, {})
    \/ \E r \in Requests : RetirementStep(r, {{}})
    \/ \E id \in SseClients : AddClient(id)
    \/ EventsRead

SpecApi == InitApi /\ [][NextApi]_vars

----------------------------------------------------------------------------
(* Claims about the routes and the references between the tables           *)

\* a route has changed a table in this step
ApiMutation ==
    streams' # streams \/ commits' # commits \/ history' # history

\* C25: every mutation made through the API (a stream PATCH, a single or
\* bulk retirement, a commit POST) broadcasts a push notification to the
\* connected listeners.
C25_MutationsNotify ==
    [][ApiMutation => Len(outbox') > Len(outbox)]_vars

\* request q is a PATCH that was answered with the row it wrote
PatchWrote(q) == q.kind = "patch" /\ q.response.status = 200

\* C26: the blockedBy of every stream is null or the id of a stream that
\* exists: deleting a stream sets the references to it to null, and no
\* update can store the id of a stream that does not exist.
C26_BlockedByExists ==
    \A id \in DOMAIN streams :
        streams[id].blockedBy = Null \/ streams[id].blockedBy \in DOMAIN streams

\* s2 was set to be blocked by s1, and s1 was then retired and deleted
C26_Witness ==
    /\ "s1" \notin DOMAIN streams
    /\ streams["s2"].blockedBy = Null
    /\ \E r \in Requests :
           /\ PatchWrote(reqs[r])
           /\ reqs[r].ids = <<"s2">>
           /\ reqs[r].response.body.stream.blockedBy = "s1"
    /\ \E r \in Requests :
           reqs[r].kind = "single" /\ reqs[r].response.status = 200

\* C27: every commit and every history event refers to a stream that
\* exists: deleting a stream removes its commits and its history, and none
\* is inserted for an id without a row.
C27_RowsReferToStreams ==
    /\ \A i \in DOMAIN commits : commits[i].streamId \in DOMAIN streams
    /\ \A i \in DOMAIN history : history[i].streamId \in DOMAIN streams

\* a commit was added for s1, then s1 was retired and deleted with its
\* commits and its history
C27_Witness ==
    /\ "s1" \notin DOMAIN streams
    /\ \E r \in Requests :
           /\ reqs[r].kind = "commit" /\ reqs[r].ids = <<"s1">>
           /\ reqs[r].response.status = 201
    /\ \E r \in Requests :
           reqs[r].kind = "single" /\ reqs[r].response.status = 200
    /\ commits = <<>>

----------------------------------------------------------------------------
(* Several processes that call startApiServer with the same lock file      *)
(* (api/server.ts, api/discovery.ts)                                       *)

StartPort == 3001
\* findAvailablePort(startPort, maxAttempts = 10)
MaxAttempts == 10
ServerLock(pid, port) == [pid |-> pid, port |-> port]
\* process.kill(pid, 0) succeeds
isProcessAlive(pid) == procs[pid].pc \notin {"exited", "killed"}
\* GET /api/stats on the port is answered with 200
testServer(port) == port \in DOMAIN listening
Bind(port, pid) ==
    [q \in (DOMAIN listening) \cup {port} |-> IF q = port THEN pid ELSE listening[q]]
Unbind(pid) ==
    [q \in {x \in DOMAIN listening : listening[x] # pid} |-> listening[q]]
otherVars ==
    <<streams, history, gitWorktrees, gitMerged, disk, call, result, commits,
      jobs, reqs, scannerVars, clients, outbox, timerVars, clientVars>>

\* startApiServer up to the first await of discoverApiServer: the lock file
\* is read; a lock of a dead process is removed
StartApiServer(p) ==
    LET lock == lockFile
    IN /\ procs[p].pc = "idle"
       /\ IF lock # NoLock /\ isProcessAlive(lock.pid)
          THEN /\ procs' = [procs EXCEPT ![p].pc = "testServer", ![p].lock = lock]
               /\ UNCHANGED lockFile
          ELSE /\ procs' = [procs EXCEPT ![p].pc = "findPort", ![p].port = StartPort]
               /\ lockFile' = NoLock
       /\ UNCHANGED <<listening, otherVars>>

\* the answer of testServer has come: reuse the server, or remove the lock
\* file and look for a port
TestServerDone(p) ==
    /\ procs[p].pc = "testServer"
    /\ IF testServer(procs[p].lock.port)
       THEN /\ procs' = [procs EXCEPT ![p].pc = "done", ![p].existing = TRUE,
                                      ![p].port = procs[p].lock.port]
            /\ UNCHANGED lockFile
       ELSE /\ procs' = [procs EXCEPT ![p].pc = "findPort", ![p].port = StartPort]
            /\ lockFile' = NoLock
    /\ UNCHANGED <<listening, otherVars>>

\* one attempt of findAvailablePort: a server is bound to the port and
\* closed again; on success discoverApiServer returns and startApiServer
\* calls app.listen(port)
FindAvailablePort(p) ==
    /\ procs[p].pc = "findPort"
    /\ procs' = [procs EXCEPT ![p] =
           IF procs[p].port \notin DOMAIN listening
           THEN [@ EXCEPT !.pc = "listen"]
           ELSE IF procs[p].port + 1 < StartPort + MaxAttempts
           THEN [@ EXCEPT !.port = @ + 1]
           ELSE [@ EXCEPT !.pc = "failed"]]
    /\ UNCHANGED <<lockFile, listening, otherVars>>

\* app.listen has bound the port and its callback runs (the lock file is
\* written, the periodic scanning of the process starts), or the port is in
\* use and the promise is rejected
Listen(p) ==
    /\ procs[p].pc = "listen"
    /\ IF procs[p].port \notin DOMAIN listening
       THEN /\ listening' = Bind(procs[p].port, p)
            /\ lockFile' = ServerLock(p, procs[p].port)
            /\ procs' = [procs EXCEPT ![p].pc = "done", ![p].existing = FALSE,
                                      ![p].scanning = TRUE]
       ELSE /\ procs' = [procs EXCEPT ![p].pc = "failed"]
            /\ UNCHANGED <<lockFile, listening>>
    /\ UNCHANGED otherVars

\* SIGINT or SIGTERM of a process that started a server: cleanup removes
\* the lock file (setupGracefulShutdown) and the process exits
Shutdown(p) ==
    /\ procs[p].pc = "done" /\ ~procs[p].existing
    /\ lockFile' = NoLock
    /\ listening' = Unbind(p)
    /\ procs' = [procs EXCEPT ![p].pc = "exited", ![p].scanning = FALSE]
    /\ UNCHANGED otherVars

\* SIGKILL: the process is gone and nothing is cleaned up
Kill(p) ==
    /\ procs[p].pc = "done" /\ ~procs[p].existing
    /\ listening' = Unbind(p)
    /\ procs' = [procs EXCEPT ![p].pc = "killed", ![p].scanning = FALSE]
    /\ UNCHANGED <<lockFile, otherVars>>

InitLock == Init

NextLock ==
    \E p \in Processes :
        \/ StartApiServer(p)
        \/ TestServerDone(p)
        \/ FindAvailablePort(p)
        \/ Listen(p)
        \/ Shutdown(p)
        \/ Kill(p)

SpecLock == InitLock /\ [][NextLock]_vars

\* the processes that have started a server which is running
Servers == {p \in Processes : procs[p].pc = "done" /\ ~procs[p].existing}
C29_Step ==
    \A p \in Processes :
        procs[p].pc = "testServer" /\ testServer(procs[p].lock.port)
        /\ procs'[p] # procs[p] =>
            /\ procs'[p].pc = "done" /\ procs'[p].existing
            /\ procs'[p].port = procs[p].lock.port
            /\ listening' = listening

\* C29: of the processes that call startApiServer for one lock file, at most
\* one starts a server, and it holds the lock; a caller that finds a live
\* server that responds reuses it instead of starting a second one.
C29_OneServerPerLock ==
    /\ [](Cardinality(Servers) <= 1 /\ \A p \in Servers : lockFile.pid = p)
    /\ [][C29_Step]_vars

----------------------------------------------------------------------------
(* A retirement followed by a restart of the server: the startup sync      *)
(* reads the planning files that are on disk                               *)

\* a plan file without status and branch in its frontmatter
PlanEntry(id) ==
    [streamId |-> id, status |-> Undefined, branch |-> Undefined, kind |-> "stream"]
\* readdirSync of .project/plan/streams, in name order: the directory of a
\* stream (taken when it holds a README.md) comes before its .md file
RECURSIVE PlanEntriesOnDisk(_, _, _)
PlanEntriesOnDisk(fs, ids, readme) ==
    IF ids = <<>> THEN <<>>
    ELSE (IF PlanDir(Head(ids)) \in fs /\ readme
          THEN <<PlanEntry(Head(ids))>> ELSE <<>>)
         \o (IF PlanFile(Head(ids)) \in fs
             THEN <<PlanEntry(Head(ids))>> ELSE <<>>)
         \o PlanEntriesOnDisk(fs, Tail(ids), readme)

\* the server is started again and syncs from the files; no request is
\* being handled by the process that starts
StartupSync(ok, readme) ==
    /\ \A r \in Requests : reqs[r].pc \in {"idle", "done"}
    /\ SyncFromFiles(PlanEntriesOnDisk(disk, PathOrder, readme), ok)

InitRestart ==
    /\ \E worktree \in WorktreeStates, plan \in PlanStates :
           InitRetirement("absent", worktree, plan)
    /\ reqs = [r \in Requests |-> IdleRequest]

NextRestart ==
    \/ \E body \in ArchiveBodies : ArchiveRequest("r1", "s1", body, {})
    \/ RetirementStep("r1", {{}})
    \/ \E ok \in GitOutcomes, readme \in BOOLEAN : StartupSync(ok, readme)

SpecRestart == InitRestart /\ [][NextRestart]_vars

\* request r has retired stream id and deleted its record
RetiredAndDeleted(r, id) ==
    /\ reqs[r].pc = "done"
    /\ reqs[r].kind = "single"
    /\ reqs[r].ids = <<id>>
    /\ reqs[r].response.status = 200

\* C30: a retirement is permanent: once a stream was retired and its record
\* deleted, no later startup sync puts a record with its id back, also when
\* the cleanup of the plan files failed or was disabled.
C30_RetirementPermanent ==
    \A r \in Requests, id \in StreamIds :
        RetiredAndDeleted(r, id) => id \notin DOMAIN streams

-----------------------------------------------------------------------------
(* Claims about the audit trail and the validation of PATCH                *)

\* the status_changed events of a stream appended in this step
StatusEventsAdded(id) ==
    SelectSeq([k \in 1..(Len(history') - Len(history)) |-> history'[Len(history) + k]],
              LAMBDA e : e.streamId = id /\ e.eventType = "status_changed")
\* this step is a PATCH /:id answered to client r
PatchAnswered(r) == Free(r) /\ reqs'[r].kind = "patch"
\* this step is a reconcile pass in which no statement failed
ReconcilePassed == call'.op = "reconcile" /\ result'.errors = <<>>
Audited(id) ==
    IF streams'[id].status # streams[id].status
    THEN StatusEventsAdded(id) =
             <<HistoryEvent(id, "status_changed", streams[id].status,
                            streams'[id].status)>>
    ELSE StatusEventsAdded(id) = <<>>

\* C31: every change of a stream's persisted status made by PATCH /:id or
\* by a reconcile pass without a storage failure appends exactly one
\* status_changed event with the status before and the status after, and a
\* request or pass that leaves the status as it was appends none.
C31_Step ==
    (ReconcilePassed \/ \E r \in Requests : PatchAnswered(r)) =>
        \A id \in DOMAIN streams : Audited(id)
C31_StatusChangesAudited == [][C31_Step]_vars

\* the body's status is given and is not one of the six states, or its
\* progress is given and is not a number in 0..100
InvalidBody(body) ==
    \/ body.status # Undefined /\ body.status \notin StreamStatus
    \/ body.progress # NoProgress /\ body.progress[1] \notin 0..100
\* the row holds every field the body supplies
FieldsApplied(row, body) ==
    /\ body.status # Undefined => row.status = body.status
    /\ body.progress # NoProgress => row.progress = body.progress[1]
    /\ body.blockedBy # Undefined => row.blockedBy = OrNull(body.blockedBy)
ProgressInRange == \A id \in DOMAIN streams : streams[id].progress \in 0..100

\* C33: PATCH validates before it mutates: a request whose status is not
\* one of the six states or whose progress is not a number in 0..100 changes
\* no row and appends no history event, so the persisted progress stays in
\* 0..100; a valid request that is answered 200 has applied every field it
\* supplied (status, progress, blockedBy), also when the new status is
\* completed.
C33_Step ==
    \A r \in Requests, id \in StreamIds, body \in PatchBodies :
        PatchAnswered(r) /\ StreamPatch(r, id, body) =>
            /\ InvalidBody(body) => streams' = streams /\ history' = history
            /\ ~InvalidBody(body) /\ PatchWrote(reqs'[r]) =>
                   FieldsApplied(streams'[id], body)
C33_ValidatedBeforeMutation == []ProgressInRange /\ [][C33_Step]_vars

-----------------------------------------------------------------------------
(* The statistics view (getQuickStats) next to the stream list             *)

\* SELECT COUNT(*) FROM streams WHERE status = ?
getStreamsCountByStatus(db, status) ==
    Cardinality({id \in DOMAIN db.streams : db.streams[id].status = status})
\* the counts of getQuickStats that do not depend on the clock
getQuickStats(db) ==
    [activeStreams |->
         Cardinality({id \in DOMAIN db.streams :
                          db.streams[id].status \notin {"completed", "archived"}}),
     inProgress |-> getStreamsCountByStatus(db, "active"),
     blocked |-> getStreamsCountByStatus(db, "blocked"),
     readyToStart |-> getStreamsCountByStatus(db, "paused"),
     totalCommits |-> Len(db.commits)]

\* the number of listed rows that satisfy Test
Listed(rows, Test(_)) == Cardinality({i \in DOMAIN rows : Test(rows[i])})

\* C40: the statistics view agrees with the stream list in every reachable
\* state, also after a scan has created the "main" row: inProgress is the
\* number of active streams getAllStreams returns, and activeStreams is the
\* number of listed streams that are neither completed nor archived.
C40_StatsAgreeWithList ==
    LET stats == getQuickStats(Database(streams, commits))
    IN \A rows \in getAllStreams(streams) :
           /\ stats.inProgress = Listed(rows, LAMBDA row : row.status = "active")
           /\ stats.activeStreams =
                  Listed(rows, LAMBDA row : row.status \notin {"completed", "archived"})

-----------------------------------------------------------------------------
(* Reconciliation of a database that holds the "main" row                  *)

\* the tables after a scan of an empty database: the row of the main branch
InitScanned ==
    /\ streams = [id \in {"main"} |-> MainRow]
    /\ history = <<>>
    /\ gitWorktrees = <<[path |-> ProjectRoot, branch |-> "main"]>>
    /\ gitMerged = {"main"}
    /\ disk = {}
    /\ call = Idle
    /\ result = EmptyResult
    /\ commits = <<>>
    /\ jobs = <<>>
    /\ reqs = [r \in Requests |-> IdleRequest]
    /\ ServerIdle

SpecScanned == InitScanned /\ [][Next]_vars

AllBuckets == Buckets \cup {"orphaned", "errors"}
\* the result in flight partitions the persisted streams
Partitioned(res, db) ==
    /\ \A id \in Persisted(db) : \E bucket \in Buckets : OnlyIn(res, id, bucket)
    /\ \A b \in Buckets : Occurrences(res, b, "main") = 0
    /\ \A b \in AllBuckets : res.summary[b] = Len(res[b])
    /\ res.summary.active + res.summary.completed + res.summary.stale
           = res.summary.totalInDb
    /\ res.summary.totalInDb = Cardinality(Persisted(db))
MainKept ==
    IsReconcileStep /\ "main" \in DOMAIN streams =>
        /\ "main" \in DOMAIN streams' /\ streams'["main"] = streams["main"]
        /\ AppendedFor("main") = <<>>

\* C39: every reconciliation result partitions the persisted streams: each
\* stream other than "main" is in exactly one of active, completed and
\* stale, also when its write failed and it is listed in errors; "main" is
\* in none of them and a reconcile never changes its row; each count of the
\* summary is the length of its bucket, and active + completed + stale is
\* totalInDb.
C39_ResultPartitions ==
    [](Pending => Partitioned(result, streams)) /\ [][MainKept]_vars
\* a result with a merged stream whose write failed, next to the "main" row
C39_Witness ==
    /\ Pending
    /\ "main" \in DOMAIN streams
    /\ \E id \in Persisted(streams) :
           id \in ErrorIds(result) /\ OnlyIn(result, id, "completed")

-----------------------------------------------------------------------------
\* C38: when retireStream has returned, worktreeDeleted is true exactly when
\* the directory recorded in the stream's worktreePath is no longer on disk:
\* also when deletion is disabled, and when the prune of the fallback fails
\* after the directory has been removed.
C38_WorktreeDeletedIffGone ==
    \A r \in Requests :
        RetireReturned(r) =>
            (reqs[r].result.worktreeDeleted <=> reqs[r].stream.worktreePath \notin disk)

-----------------------------------------------------------------------------
(* syncFromFiles called by a program that keeps what it returns            *)

\* the most entries of the streams directory in one run
MaxDirEntries == 2
DirEntry(id, status, kind) ==
    [streamId |-> id, status |-> status, branch |-> Undefined, kind |-> kind]
\* the names the directory may hold, in the order readdirSync lists them:
\* s1 as a directory and as a .md file, s2, and entries that are no stream
DirNames ==
    <<DirEntry("s1", Undefined, "stream"), DirEntry("s1", "blocked", "stream"),
      DirEntry("s2", Undefined, "stream"), DirEntry("s1", Undefined, "noReadme"),
      DirEntry("s1", Undefined, "otherFile"), DirEntry("s2", Undefined, "unparsable"),
      DirEntry("s2", Undefined, "rejected")>>
\* the i-th smallest member of a set of numbers
Nth(S, i) == CHOOSE k \in S : Cardinality({j \in S : j < k}) = i - 1
\* the listings of the directory: some of the names, in their order
DirListings ==
    {[i \in 1..Cardinality(S) |-> DirNames[Nth(S, i)]] :
        S \in {T \in SUBSET DOMAIN DirNames : Cardinality(T) <= MaxDirEntries}}

SyncFromFilesCall(files, ok) ==
    LET out == SyncEntries([db |-> streams, log |-> history, synced |-> 0,
                            skipped |-> 0, errors |-> 0],
                           files, getWorktreeList(ok, gitWorktrees))
    IN /\ ~Pending
       /\ Len(out.log) <= MaxHistory
       /\ streams' = out.db
       /\ history' = out.log
       /\ call' = Idle
       /\ result' = EmptyResult
       /\ syncResult' = [synced |-> out.synced, skipped |-> out.skipped,
                         errors |-> out.errors, entries |-> files]
       /\ UNCHANGED <<gitWorktrees, gitMerged, disk, retirementVars, scannerVars,
                      clients, outbox, timerVars, lockVars, heartbeats, sdk, sent>>

NextSync ==
    \/ \E files \in DirListings, ok \in GitOutcomes : SyncFromFilesCall(files, ok)
    \/ \E ok \in GitOutcomes :
           ReconciliationRun([dryRun |-> "false", autoArchiveStale |-> "true"], ok)
    \/ ResponseReceived
    \/ \E branch \in MergeableBranches : GitMerge(branch)

SpecSync == Init /\ [][NextSync]_vars

\* this step is a run of syncFromFiles: no reconcile call, no response read,
\* no merge
SyncReturned ==
    call.op # "reconcile" /\ call'.op # "reconcile" /\ gitMerged' = gitMerged
CreatedEvents(log, id) ==
    Cardinality({i \in DOMAIN log : log[i].streamId = id /\ log[i].eventType = "created"})

\* C37: syncFromFiles never overwrites a stream that exists: its entry is
\* counted as skipped, the stored row is left as it is and no second
\* `created` event is appended; a run over the files of the run before it
\* reports synced = 0; and in every run synced + skipped + errors is the
\* number of directory entries examined.
C37_Step ==
    SyncReturned =>
        /\ \A id \in DOMAIN streams :
               /\ id \in DOMAIN streams' /\ streams'[id] = streams[id]
               /\ CreatedEvents(history', id) = CreatedEvents(history, id)
        /\ syncResult'.synced = Cardinality(DOMAIN streams' \ DOMAIN streams)
        /\ syncResult'.synced + syncResult'.skipped + syncResult'.errors
               = Len(syncResult'.entries)
        /\ syncResult'.entries = syncResult.entries => syncResult'.synced = 0
-----------------------------------------------------------------------------
(* EventManager: broadcasts, heartbeats and listeners that go away         *)

\* the event types a caller broadcasts
BroadcastTypes == {"streams", "all"}

\* the callback of the heartbeat interval of listener id: a listener still
\* registered is sent a heartbeat (fails: the write throws and sendToClient
\* deletes it), for any other the interval clears itself
HeartbeatTick(id, fails) ==
    /\ id \in heartbeats
    /\ IF id \in clients
       THEN /\ outbox = <<>>
            /\ IF fails
               THEN clients' = clients \ {id} /\ UNCHANGED outbox
               ELSE /\ outbox' = Append(outbox, SseEvent("heartbeat", {id}))
                    /\ UNCHANGED clients
            /\ UNCHANGED heartbeats
       ELSE /\ heartbeats' = heartbeats \ {id}
            /\ UNCHANGED <<clients, outbox>>
    /\ UNCHANGED <<streams, disk, commits, scannerVars, timerVars, lockVars, sdk,
                   syncResult, sent, reconciliationVars>>

\* eventManager.broadcast(event, data) called by code that keeps the count;
\* the responses of the listeners in broken throw on write
Broadcast(event, broken) ==
    LET out == broadcast(Network(clients, outbox), event, broken)
    IN /\ outbox = <<>>
       /\ clients' = out.clients
       /\ outbox' = out.outbox
       /\ sent' = out.sent
       /\ UNCHANGED <<streams, disk, commits, scannerVars, timerVars, lockVars,
                      heartbeats, sdk, syncResult, reconciliationVars>>

NextEvents ==
    \/ \E id \in SseClients : AddClient(id)
    \/ \E id \in SseClients : ClientClosed(id)
    \/ \E id \in SseClients, fails \in BOOLEAN : HeartbeatTick(id, fails)
    \/ \E event \in BroadcastTypes, broken \in SUBSET clients : Broadcast(event, broken)
    \/ EventsRead

\* an interval that is not cleared fires again and again
SpecEvents ==
    /\ Init
    /\ [][NextEvents]_vars
    /\ \A id \in SseClients : WF_vars(\E fails \in BOOLEAN : HeartbeatTick(id, fails))

\* the events written in this step
Written ==
    IF Len(outbox') > Len(outbox)
    THEN {outbox'[k] : k \in (Len(outbox) + 1)..Len(outbox')} ELSE {}
\* this step is a call of broadcast
Broadcasting == \E e \in Written : e.event \in BroadcastTypes

\* C32: broadcast writes the event to every listener registered when it is
\* called and to no listener that connects afterwards (nothing is kept for
\* a replay); a listener whose write fails is removed and the others still
\* get the event; the value returned is the number of writes that
\* succeeded; a listener that was removed or has closed gets no further
\* event, and its heartbeat interval is cleared in the end.
C32_Step ==
    /\ Broadcasting =>
           \E e \in Written :
               /\ Written = {e}
               /\ e.to = clients' /\ clients' \subseteq clients
               /\ sent' = Cardinality(e.to)
    \* what was written stays as written, to the listeners of that moment
    /\ outbox' # <<>> => SubSeq(outbox', 1, Len(outbox)) = outbox
    \* an event goes to registered listeners only
    /\ \A e \in Written : e.to \subseteq clients'
    /\ \A e \in Written : e.event # "connected" => e.to \subseteq clients
-----------------------------------------------------------------------------
(* The SSE clients of the SDK: StreamStatusSSEClient (EventSource, in the  *)
(* browser) and NodeSSEClient (fetch)                                      *)

\* config.maxReconnectAttempts
MaxReconnectAttempts == 2
\* the most connections one client creates, and the most losses it sees
MaxConnections == 3
MaxLosses == 3

SdkKinds == {"browser", "node"}
\* the handlers registered with on(): two for `streams`, one of which
\* throws, one for `commits`, one wildcard
SdkHandlers ==
    {[on |-> "streams", throws |-> TRUE], [on |-> "streams", throws |-> FALSE],
     [on |-> "commits", throws |-> FALSE], [on |-> "*", throws |-> FALSE]}
NoDelivery == [event |-> Null, called |-> {}]
\* a client as constructed, with its handlers registered. current is
\* this.eventSource or this.abortController: a connection of conns, or 0
\* for null; timers counts the pending setTimeout callbacks; stopped tells
\* that disconnect() or destroy() was the last call of the program
NewSseClient(kind) ==
    [kind |-> kind, current |-> 0, isConnected |-> FALSE, conns |-> <<>>,
     reconnectAttempts |-> 0, timers |-> 0, errorCalls |-> 0, losses |-> 0,
     handlers |-> SdkHandlers, received |-> NoDelivery, stopped |-> FALSE]

\* connect(): nothing when connected, else a new EventSource or fetch; the
\* connection there was is left as it is
connect(c) ==
    IF \/ c.kind = "browser" /\ c.current # 0 /\ c.conns[c.current] = "open"
       \/ c.kind = "node" /\ c.isConnected
    THEN c
    ELSE [c EXCEPT !.conns = Append(@, "connecting"), !.current = Len(c.conns) + 1]

\* Reconnect with `<=` for `<`
Reconnect_OneMore(c) ==
    IF c.reconnectAttempts <= MaxReconnectAttempts
    THEN [c EXCEPT !.reconnectAttempts = @ + 1, !.timers = @ + 1]
    ELSE [c EXCEPT !.errorCalls = @ + 1]
\* the end of onerror and of handleDisconnect: schedule a reconnect, or call
\* the error handlers
Reconnect(c) ==
    IF c.reconnectAttempts < MaxReconnectAttempts
    THEN [c EXCEPT !.reconnectAttempts = @ + 1, !.timers = @ + 1]
    ELSE [c EXCEPT !.errorCalls = @ + 1]

\* eventSource.onerror of connection i: this.eventSource is closed and set
\* to null; a connection that is not this.eventSource is retried by the
\* browser (retry) or has failed for good
onerror(c, i, retry) ==
    LET closed == IF c.current # 0
                  THEN [c EXCEPT !.conns[c.current] = "closed", !.current = 0]
                  ELSE c
    IN Reconnect([closed EXCEPT
                     !.conns[i] = IF i = c.current THEN "closed"
                                  ELSE IF retry THEN "connecting" ELSE "closed"])

\* handleDisconnect after the fetch or the read of connection i has failed
\* or the stream has ended
handleDisconnect(c, i) ==
    Reconnect([c EXCEPT !.conns[i] = "closed", !.isConnected = FALSE])

\* disconnect(): close the EventSource, or abort the fetch and its reader
disconnect(c) ==
    IF c.current = 0 THEN [c EXCEPT !.isConnected = FALSE]
    ELSE [c EXCEPT !.conns[c.current] = "closed", !.current = 0,
                   !.isConnected = FALSE]

\* emit(eventType): every handler registered for the type is called inside
\* its own try block
emit(c, eventType) == {h \in c.handlers : h.on = eventType}
\* an EventSource gives an event written as `event: T` to the listeners of
\* T; onmessage is the listener of the events that have no event field
OnMessage(c, event) ==
    IF event = "message" THEN emit(c, event) \cup emit(c, "*") ELSE {}
\* the reader of the fetch client parses every data line and emits its type
ProcessChunk(c, event) == emit(c, event) \cup emit(c, "*")

SdkUnchanged ==
    UNCHANGED <<streams, disk, commits, scannerVars, clients, outbox, timerVars,
                lockVars, heartbeats, syncResult, sent, reconciliationVars>>

\* the program calls connect()
Connect ==
    /\ Len(sdk.conns) < MaxConnections
    /\ sdk' = [connect(sdk) EXCEPT !.stopped = FALSE]
    /\ SdkUnchanged
\* a reconnect timer fires: its callback calls connect()
ReconnectTimer ==
    /\ sdk.timers > 0
    /\ Len(sdk.conns) < MaxConnections
    /\ sdk' = connect([sdk EXCEPT !.timers = @ - 1])
    /\ SdkUnchanged
\* onopen, or the fetch has answered 200 with a body
Opened(i) ==
    /\ i \in DOMAIN sdk.conns /\ sdk.conns[i] = "connecting"
    /\ sdk' = [sdk EXCEPT !.conns[i] = "open", !.reconnectAttempts = 0,
                          !.isConnected = (sdk.kind = "node")]
    /\ SdkUnchanged
\* the connection attempt i fails, or the open connection i is lost
Lost(i, retry) ==
    /\ i \in DOMAIN sdk.conns /\ sdk.conns[i] \in {"connecting", "open"}
    /\ sdk.losses < MaxLosses
    /\ sdk' = [(IF sdk.kind = "browser" THEN onerror(sdk, i, retry)
                ELSE handleDisconnect(sdk, i)) EXCEPT !.losses = @ + 1]
    /\ SdkUnchanged
\* the program calls disconnect()
Disconnect ==
    /\ sdk' = [disconnect(sdk) EXCEPT !.stopped = TRUE]
    /\ SdkUnchanged
\* the program calls destroy()
Destroy ==
    /\ sdk' = [disconnect(sdk) EXCEPT !.stopped = TRUE, !.handlers = {}]
    /\ SdkUnchanged
\* the server broadcasts an event of type event; it arrives on the open
\* connection i as `event: <type>` and `data: {"type": <type>, ...}`
Receive(i, event) ==
    /\ i \in DOMAIN sdk.conns /\ sdk.conns[i] = "open"
    /\ sdk' = [sdk EXCEPT !.received =
                  [event |-> event,
                   called |-> IF sdk.kind = "browser" THEN OnMessage(sdk, event)
                              ELSE ProcessChunk(sdk, event)]]
    /\ SdkUnchanged

InitSdk ==
    /\ streams = [id \in {} |-> id]
    /\ history = <<>>
    /\ gitWorktrees = <<[path |-> ProjectRoot, branch |-> "main"]>>
    /\ gitMerged = {"main"}
    /\ disk = {}
    /\ call = Idle
    /\ result = EmptyResult
    /\ commits = <<>>
    /\ jobs = <<>>
    /\ reqs = [r \in Requests |-> IdleRequest]
    /\ gitLog = [id \in StreamIds \cup {"main"} |-> <<>>]
    /\ parsed = NoParse
    /\ scan = NoScan
    /\ clients = {}
    /\ outbox = <<>>
    /\ TimersIdle
    /\ LockIdle
    /\ heartbeats = {}
    /\ syncResult = NoSync
    /\ sent = 0
    /\ \E kind \in SdkKinds : sdk = NewSseClient(kind)

NextSdk ==
    \/ Connect
    \/ ReconnectTimer
    \/ \E i \in 1..MaxConnections : Opened(i)
    \/ \E i \in 1..MaxConnections, retry \in BOOLEAN : Lost(i, retry)
    \/ Disconnect
    \/ Destroy
    \/ \E i \in 1..MaxConnections, event \in {"streams", "commits"} : Receive(i, event)

SpecSdk == InitSdk /\ [][NextSdk]_vars

-----------------------------------------------------------------------------
(* Claims about the SSE clients of the SDK                                 *)

\* the handlers registered for the type of an event, and the wildcard ones
HandlersFor(c, event) == {h \in c.handlers : h.on \in {event, "*"}}

\* C34: an event of type T that the server broadcasts (`event: T` and a
\* JSON data line) is delivered to every handler registered with on(T) and
\* to every wildcard handler of a connected SDK client, of either class; a
\* handler that throws does not keep the others from being called.
C34_Step ==
    sdk'.received # sdk.received =>
        sdk'.received.called = HandlersFor(sdk, sdk'.received.event)
C34_EventsReachHandlers == [][C34_Step]_vars

\* a connection attempt has succeeded in this step
OpenedNow ==
    \E i \in DOMAIN sdk.conns : sdk.conns[i] = "connecting" /\ sdk'.conns[i] = "open"
\* a connection attempt has failed or a connection was lost in this step
LostNow == sdk'.losses = sdk.losses + 1

\* C35: in both SDK clients reconnectAttempts never exceeds
\* maxReconnectAttempts and is set to 0 by every successful connection;
\* a loss after maxReconnectAttempts failed attempts in a row calls the
\* error handlers and schedules no reconnect; before that limit every loss
\* schedules exactly one reconnect.
C35_Step ==
    /\ OpenedNow => sdk'.reconnectAttempts = 0
    /\ LostNow =>
           IF sdk.reconnectAttempts < MaxReconnectAttempts
           THEN /\ sdk'.timers = sdk.timers + 1
                /\ sdk'.reconnectAttempts = sdk.reconnectAttempts + 1
                /\ sdk'.errorCalls = sdk.errorCalls
           ELSE /\ sdk'.timers = sdk.timers
                /\ sdk'.reconnectAttempts = sdk.reconnectAttempts
                /\ sdk'.errorCalls = sdk.errorCalls + 1
C35_ReconnectBounded ==
    /\ [](sdk.reconnectAttempts <= MaxReconnectAttempts)
    /\ [][C35_Step]_vars
\* the error handlers were called after the last allowed attempt failed,
\* with no timer left
C35_Witness ==
    /\ sdk.errorCalls = 1
    /\ sdk.reconnectAttempts = MaxReconnectAttempts
    /\ sdk.timers = 0
    /\ sdk.losses = MaxReconnectAttempts + 1

OpenConnections(c) == {i \in DOMAIN c.conns : c.conns[i] = "open"}

\* C36: after disconnect() or destroy() the client opens no further
\* connection unless connect() is called again, whatever reconnect timer is
\* pending and whatever connect is in flight; and a client never has more
\* than one connection open.
C36_Step ==
    sdk.stopped /\ sdk'.stopped =>
        /\ Len(sdk'.conns) = Len(sdk.conns)
        /\ OpenConnections(sdk') \subseteq OpenConnections(sdk)
C36_NoConnectionAfterDisconnect ==
    /\ [](Cardinality(OpenConnections(sdk)) <= 1)
    /\ [][C36_Step]_vars

=============================================================================
